---- MODULE Spec2Model ----
(***************************************************************************)
(* State-machine model of the data aggregation scripts of the market       *)
(* dashboard monorepo: the unified fetchers (tools/fetchers, versions 1,   *)
(* 2 and 3) and the economic-compass site build.                           *)
(*                                                                         *)
(* Python values are modelled by strings: "None" is None, "num" a float or *)
(* an int, "list"/"empty" a non-empty/empty list, "str" a text.  A store   *)
(* or dict key that is not present holds "Absent".                         *)
(***************************************************************************)
EXTENDS Integers, Sequences, FiniteSets, TLC

VARIABLES
    pc,                 \* position of main()
    args,               \* parsed command line: run_all, target_app, no_ai
    env,                \* installed libraries and configured API key
    store,              \* DataStore.data of the global store
    reqs,               \* requests sent to each upstream data resource
    outages,            \* upstream failures so far in this run
    AI_QUOTA_EXCEEDED,  \* the module-level quota flag
    ai_result,          \* v3: result of call_unified_ai; v2: result of the last call_ai
    aiCalls,            \* invocations of the AI caller in this run
    aiIdx,              \* index of the next model of the fallback loop
    aiLog,              \* models requested by the current AI call, in order
    http,               \* AI model the latest step sent an HTTP request to
    dashboards,         \* the dashboards list of main(): saved in this run
    analysis,           \* what the latest builder took from the AI: "ai" or "default"
    files,              \* DATA_DIR/<folder>/latest.json
    log,                \* order of the fetch calls, AI calls and writes of the run
    cache,              \* v1: the files of BaseFetcher.cache_dir
    now,                \* v1: the clock, in seconds
    result,             \* v1: what the latest call returned or raised
    steps,              \* v1: calls and clock advances so far
    site,               \* economic-compass: raw_data, insight_html, the public directory
    apps_to_fetch,      \* v1 main: the apps to process, in order
    results,            \* v1 main: results['success'] and results['failed']
    disk,               \* v1 main: the output files save_data wrote in this run
    history,            \* v1: DATA_DIR/the-shield/history.json
    futures,            \* thread pool: the submitted calls, their state and result
    multi,              \* thread pool: what the main thread collected so far
    thread              \* thread pool: the thread that took the latest step

vars == <<pc, args, env, store, reqs, outages, AI_QUOTA_EXCEEDED, ai_result,
          aiCalls, aiIdx, aiLog, http, dashboards, analysis, files, log,
          cache, now, result, steps, site,
          apps_to_fetch, results, disk, history, futures, multi, thread>>

-----------------------------------------------------------------------------
(* Bounds of the model *)

\* upstream failures (missing library, failed or degraded fetch) in one run
MaxOutages == 1
\* tokens in the text a model answers with
MaxContentLen == 3
\* fetcher calls and clock advances in one session of unified_fetcher.py
MaxSteps == 3

-----------------------------------------------------------------------------
(* Python values *)

None == "None"
Absent == "Absent"

\* dict.get(key, default): the default is used only when the key is missing
DictGet(d, k, default) == IF d[k] = Absent THEN default ELSE d[k]

\* format(value, format_spec) inside an f-string: NoneType.__format__ raises
\* TypeError for every non-empty format spec
FormatRaises(value, format_spec) == value = None /\ format_spec # ""

\* bool(value)
Truthy(value) == value \notin {None, Absent, "empty", "{}", ""}

-----------------------------------------------------------------------------
(* Configuration: tickers, feeds, arXiv domains, dashboards *)

\* tickers of fetch_market_data: name -> Yahoo Finance symbol
tickers ==
    [JPY |-> "JPY=X", CNH |-> "CNH=X", TNX |-> "^TNX", MOVE |-> "^MOVE",
     VIX |-> "^VIX", CBON |-> "CBON", BTC |-> "BTC-USD", ETH |-> "ETH-USD",
     DXY |-> "DX-Y.NYB", GOLD |-> "GC=F", OIL |-> "CL=F", SP500 |-> "^GSPC",
     TASI |-> "^TASI.SR"]

TickerNames == DOMAIN tickers

\* symbols of fetch_crypto_indicators
CryptoSymbols == <<"BTC-USD", "ETH-USD">>

CryptoName(symbol) == IF symbol = "BTC-USD" THEN "BTC" ELSE "ETH"

CryptoFields == {"sma_20", "ema_21", "ma50", "ma200", "rsi", "trend"}

TreasuryUrl == "api.fiscaldata.treasury.gov/auctions_query"

FngUrl == "api.alternative.me/fng"

feeds ==
    <<"finance.yahoo.com/news/rssindex", "cointelegraph.com/rss",
      "www.marketwatch.com/rss/topstories", "www.artificialintelligence-news.com/feed">>

domains ==
    ("AI Research" :> "cat:cs.AI OR cat:cs.LG")
    @@ ("Advanced Manufacturing" :> "cat:cs.RO OR cat:cs.SY")
    @@ ("Biotechnology" :> "cat:q-bio.BM OR cat:q-bio.GN")
    @@ ("Quantum Computing" :> "cat:quant-ph")
    @@ ("Semiconductors" :> "cat:cond-mat.mes-hall OR cat:cs.ET")

DomainNames == DOMAIN domains

Range(f) == {f[i] : i \in DOMAIN f}

\* every upstream data resource of a run
Resources ==
    Range(tickers) \cup {TreasuryUrl, FngUrl} \cup Range(feeds) \cup Range(domains)

StoreKeys ==
    {"market." \o n : n \in TickerNames}
    \cup {"crypto." \o c \o "." \o f : c \in {"BTC", "ETH"}, f \in CryptoFields}
    \cup {"treasury.10y_bid_to_cover", "treasury.10y_auction_date"}
    \cup {"fng.value", "fng.classification", "fng.timestamp"}
    \cup {"news.articles"}
    \cup {"arxiv." \o d \o "." \o f : d \in DomainNames, f \in {"total", "papers"}}

\* the seven dashboards, in the order v3 main builds them
V3Order ==
    <<"the-shield", "the-coin", "the-map", "the-frontier", "the-library",
      "the-strategy", "the-commander">>

Folders == Range(V3Order)

Libraries == {"requests", "yfinance", "feedparser", "pandas"}

-----------------------------------------------------------------------------
(* DataStore *)

\* DataStore.set applied to several keys: upd maps the keys set to their values
StoreSet(s, upd) == [k \in StoreKeys |-> IF k \in DOMAIN upd THEN upd[k] ELSE s[k]]

\* DataStore.get
StoreGet(s, k) == IF s[k] = Absent THEN None ELSE s[k]

\* DataStore.has
StoreHas(s, k) == s[k] # Absent

\* a latest.json that does not exist
NoFile == [dashboard |-> Absent, ai_arg |-> Absent, btc_price |-> Absent,
           oil |-> Absent, sp500 |-> Absent]

aiVars == <<AI_QUOTA_EXCEEDED, ai_result, aiCalls, aiIdx, aiLog>>
outVars == <<dashboards, analysis, files>>
runVars == <<pc, args, env, store, reqs, outages, aiVars, http, outVars, log>>
v1Vars == <<cache, now, result, steps>>
mainVars == <<apps_to_fetch, results, disk, history>>
poolVars == <<futures, multi, thread>>
sideVars == <<v1Vars, site, mainVars, poolVars>>

\* no call has returned yet
NoResult ==
    [kind |-> "none", success |-> FALSE, data |-> None, source |-> None,
     fetched_at |-> 0, error |-> None]

\* build_site has not started: no data, no insight, no public directory
NoSite ==
    [btc |-> Absent, eth |-> Absent, insight_html |-> Absent, public |-> "absent",
     rendered |-> Absent]

\* history.json does not exist
NoHistory == [kind |-> "missing", entries |-> <<>>]

\* main() of unified_fetcher.py has not started
IdleMain ==
    /\ apps_to_fetch = <<>>
    /\ results = [success |-> <<>>, failed |-> <<>>]
    /\ disk = {}
    /\ history = NoHistory

\* no thread pool is open
IdlePool == futures = <<>> /\ multi = <<>> /\ thread = "main"

\* the parts of the state the v2 and v3 scripts do not use
IdleV1 ==
    /\ cache = <<>> /\ now = 0 /\ result = NoResult /\ steps = 0 /\ site = NoSite
    /\ IdleMain /\ IdlePool

-----------------------------------------------------------------------------
(* The run: command line and environment *)

\* run_all = args.all or not args.app; --app takes any string
Args ==
    [run_all : {TRUE}, target_app : {None}, no_ai : BOOLEAN]
    \cup [run_all : {FALSE}, target_app : Folders \cup {"no-such-app"}, no_ai : BOOLEAN]

Envs == [missing : {m \in SUBSET Libraries : Cardinality(m) <= 1}, key : BOOLEAN]

REQUESTS_AVAILABLE == "requests" \notin env.missing
YFINANCE_AVAILABLE == "yfinance" \notin env.missing
FEEDPARSER_AVAILABLE == "feedparser" \notin env.missing
PANDAS_AVAILABLE == "pandas" \notin env.missing

\* state at the start of main(): empty store, nothing requested, nothing saved
InitRun ==
    /\ pc = "fetch_market_data"
    /\ args \in Args
    /\ env \in Envs
    /\ Cardinality(env.missing) <= MaxOutages
    /\ outages = Cardinality(env.missing)
    /\ store = [k \in StoreKeys |-> Absent]
    /\ reqs = [r \in Resources |-> 0]
    /\ AI_QUOTA_EXCEEDED = FALSE
    /\ ai_result = None
    /\ aiCalls = 0
    /\ aiIdx = 0
    /\ aiLog = <<>>
    /\ http = "none"
    /\ dashboards = <<>>
    /\ analysis = "default"
    /\ files = [f \in Folders |-> NoFile]
    /\ log = <<>>
    /\ IdleV1

-----------------------------------------------------------------------------
(* Fetch functions, identical in unified_fetcher_v2.py and _v3.py *)

\* the fetch calls of main() step 1, in order
MainFetchOrder ==
    <<"fetch_market_data", "fetch_crypto_indicators", "fetch_treasury_data",
      "fetch_fear_and_greed", "fetch_news", "fetch_arxiv_papers">>

\* faulty variant of AfterFetch: step 2 starts before the arXiv papers are fetched
AfterFetchWithoutArxiv(name) ==
    IF name \in {"fetch_news", "fetch_arxiv_papers"} THEN "step2"
    ELSE MainFetchOrder[1 + CHOOSE i \in 1..Len(MainFetchOrder) : MainFetchOrder[i] = name]

\* where main() continues after the fetch call name: the next fetch call, and
\* step 2 after the last
AfterFetch(name) ==
    IF name = MainFetchOrder[Len(MainFetchOrder)] THEN "step2"
    ELSE MainFetchOrder[1 + CHOOSE i \in 1..Len(MainFetchOrder) : MainFetchOrder[i] = name]

\* fetch_ticker: "fast" fast_info gave the price; "hist" fast_info failed and
\* history gave it; "none" history was empty; "exc" history raised
TickerOutcomes == {"fast", "hist", "none", "exc"}

TickerPrice(outcome) == IF outcome \in {"fast", "hist"} THEN "num" ELSE None

\* requests to the symbol: fast_info, then history when fast_info gave no price
TickerRequests(outcome) == IF outcome = "fast" THEN 1 ELSE 2

fetch_market_data ==
    /\ pc = "fetch_market_data"
    /\ IF ~YFINANCE_AVAILABLE
       THEN UNCHANGED <<store, reqs, outages>>
       ELSE \E failed \in SUBSET TickerNames :
                /\ outages + Cardinality(failed) <= MaxOutages
                /\ \E how \in [failed -> TickerOutcomes \ {"fast"}] :
                    LET outcome == [n \in TickerNames |-> IF n \in failed THEN how[n] ELSE "fast"]
                        got == {n \in TickerNames : TickerPrice(outcome[n]) # None}
                    IN  /\ store' = StoreSet(store, [k \in {"market." \o n : n \in got} |-> "num"])
                        /\ reqs' = [r \in Resources |->
                                      IF \E n \in TickerNames : tickers[n] = r
                                      THEN reqs[r] + TickerRequests(outcome[CHOOSE n \in TickerNames : tickers[n] = r])
                                      ELSE reqs[r]]
                        /\ outages' = outages + Cardinality(failed)
    /\ pc' = AfterFetch("fetch_market_data")
    /\ log' = Append(log, "fetch_market_data")
    /\ http' = "none"
    /\ UNCHANGED <<args, env, aiVars, outVars, sideVars>>

\* yf.download of one symbol: "ok" all indicators computed; "nan" too little
\* history, the indicators are NaN; "empty" df.empty; "exc" an exception
CryptoOutcomes == {"ok", "nan", "empty", "exc"}

CryptoUpdate(symbol, outcome) ==
    IF outcome \in {"empty", "exc"} THEN [k \in {} |-> None]
    ELSE [k \in {"crypto." \o CryptoName(symbol) \o "." \o f : f \in CryptoFields} |->
            IF k = "crypto." \o CryptoName(symbol) \o ".trend"
            THEN (IF outcome = "ok" THEN "Bullish" ELSE "Bearish")
            ELSE (IF outcome = "ok" THEN "num" ELSE None)]

fetch_crypto_indicators ==
    /\ pc = "fetch_crypto_indicators"
    /\ IF ~YFINANCE_AVAILABLE \/ ~PANDAS_AVAILABLE
       THEN UNCHANGED <<store, reqs, outages>>
       ELSE \E o1 \in CryptoOutcomes, o2 \in CryptoOutcomes :
                LET bad == (IF o1 = "ok" THEN 0 ELSE 1) + (IF o2 = "ok" THEN 0 ELSE 1)
                IN  /\ outages + bad <= MaxOutages
                    /\ store' = StoreSet(StoreSet(store, CryptoUpdate(CryptoSymbols[1], o1)),
                                         CryptoUpdate(CryptoSymbols[2], o2))
                    /\ reqs' = [r \in Resources |->
                                  IF r \in Range(CryptoSymbols) THEN reqs[r] + 1 ELSE reqs[r]]
                    /\ outages' = outages + bad
    /\ pc' = AfterFetch("fetch_crypto_indicators")
    /\ log' = Append(log, "fetch_crypto_indicators")
    /\ http' = "none"
    /\ UNCHANGED <<args, env, aiVars, outVars, sideVars>>

\* "ok" one auction row; "empty" no row; "exc" HTTP error status or exception
TreasuryOutcomes == {"ok", "empty", "exc"}

fetch_treasury_data ==
    /\ pc = "fetch_treasury_data"
    /\ IF ~REQUESTS_AVAILABLE
       THEN UNCHANGED <<store, reqs, outages>>
       ELSE \E o \in TreasuryOutcomes :
                /\ outages + (IF o = "ok" THEN 0 ELSE 1) <= MaxOutages
                /\ store' = IF o = "ok"
                            THEN StoreSet(store, [k \in {"treasury.10y_bid_to_cover", "treasury.10y_auction_date"} |->
                                                    IF k = "treasury.10y_bid_to_cover" THEN "num" ELSE "str"])
                            ELSE store
                /\ reqs' = [reqs EXCEPT ![TreasuryUrl] = @ + 1]
                /\ outages' = outages + (IF o = "ok" THEN 0 ELSE 1)
    /\ pc' = AfterFetch("fetch_treasury_data")
    /\ log' = Append(log, "fetch_treasury_data")
    /\ http' = "none"
    /\ UNCHANGED <<args, env, aiVars, outVars, sideVars>>

\* the three store.set calls run in order; a payload that lacks a field stops
\* them at that field: 0 (exception before the first) .. 3 (all three set)
FngKeys == <<"fng.value", "fng.classification", "fng.timestamp">>

fetch_fear_and_greed ==
    /\ pc = "fetch_fear_and_greed"
    /\ IF ~REQUESTS_AVAILABLE
       THEN UNCHANGED <<store, reqs, outages>>
       ELSE \E n \in 0..3 :
                /\ outages + (IF n = 3 THEN 0 ELSE 1) <= MaxOutages
                /\ store' = StoreSet(store, [k \in {FngKeys[i] : i \in 1..n} |->
                                               IF k = "fng.value" THEN "num" ELSE "str"])
                /\ reqs' = [reqs EXCEPT ![FngUrl] = @ + 1]
                /\ outages' = outages + (IF n = 3 THEN 0 ELSE 1)
    /\ pc' = AfterFetch("fetch_fear_and_greed")
    /\ log' = Append(log, "fetch_fear_and_greed")
    /\ http' = "none"
    /\ UNCHANGED <<args, env, aiVars, outVars, sideVars>>

\* each feed is parsed once; a feed that fails contributes no article;
\* news.articles is stored in every case
fetch_news ==
    /\ pc = "fetch_news"
    /\ IF ~FEEDPARSER_AVAILABLE
       THEN /\ store' = StoreSet(store, [k \in {"news.articles"} |-> "empty"])
            /\ UNCHANGED <<reqs, outages>>
       ELSE \E failed \in SUBSET Range(feeds) :
                /\ outages + Cardinality(failed) <= MaxOutages
                /\ store' = StoreSet(store, [k \in {"news.articles"} |->
                                               IF failed = Range(feeds) THEN "empty" ELSE "list"])
                /\ reqs' = [r \in Resources |-> IF r \in Range(feeds) THEN reqs[r] + 1 ELSE reqs[r]]
                /\ outages' = outages + Cardinality(failed)
    /\ pc' = AfterFetch("fetch_news")
    /\ log' = Append(log, "fetch_news")
    /\ http' = "none"
    /\ UNCHANGED <<args, env, aiVars, outVars, sideVars>>

\* one query per domain; a domain that fails stores nothing
fetch_arxiv_papers ==
    /\ pc = "fetch_arxiv_papers"
    /\ \E failed \in SUBSET DomainNames :
        /\ outages + Cardinality(failed) <= MaxOutages
        /\ store' = StoreSet(store,
                [k \in {"arxiv." \o d \o "." \o f : d \in DomainNames \ failed, f \in {"total", "papers"}} |->
                    IF \E d \in DomainNames : k = "arxiv." \o d \o ".total" THEN "num" ELSE "list"])
        /\ reqs' = [r \in Resources |-> IF r \in Range(domains) THEN reqs[r] + 1 ELSE reqs[r]]
        /\ outages' = outages + Cardinality(failed)
    /\ pc' = AfterFetch("fetch_arxiv_papers")
    /\ log' = Append(log, "fetch_arxiv_papers")
    /\ http' = "none"
    /\ UNCHANGED <<args, env, aiVars, outVars, sideVars>>

-----------------------------------------------------------------------------
(* Texts answered by a model, and the JSON found in them.  A text is a      *)
(* sequence of tokens: "{" and "}" are the braces, "k" stands for the       *)
(* members of a well-formed answer ("the_shield": {...}, ...), "x" for any  *)
(* text that is not JSON.                                                   *)

Tokens == {"{", "}", "k", "x"}

Contents == UNION {[1..n -> Tokens] : n \in 0..MaxContentLen}

\* str.find(t): 0-based index of the first occurrence, -1 when there is none
PyFind(s, t) ==
    IF \E i \in 1..Len(s) : s[i] = t
    THEN (CHOOSE i \in 1..Len(s) : s[i] = t /\ \A j \in 1..(i - 1) : s[j] # t) - 1
    ELSE -1

\* str.rfind(t): 0-based index of the last occurrence, -1 when there is none
PyRFind(s, t) ==
    IF \E i \in 1..Len(s) : s[i] = t
    THEN (CHOOSE i \in 1..Len(s) : s[i] = t /\ \A j \in (i + 1)..Len(s) : s[j] # t) - 1
    ELSE -1

\* s[a:b] for 0 <= a <= b <= len(s)
PySlice(s, a, b) == SubSeq(s, a + 1, b)

\* json.loads: the parsed dict, or "JSONDecodeError".  Of the texts over
\* Tokens only {} and {members} are JSON documents.
json_loads(s) ==
    IF s = <<"{", "}">> THEN "{}"
    ELSE IF s = <<"{", "k", "}">> THEN "{k}"
    ELSE "JSONDecodeError"

\* HTTP answers of an AI endpoint.  status 0: requests.post raised (timeout,
\* connection error).  body of a 200: "choices" a completion with a text,
\* "null_content" a completion whose text is null, "no_choices" an answer
\* without completions, "not_json" a body response.json() cannot parse.
Responses ==
    {[status |-> s, body |-> "none", content |-> <<>>] : s \in {0, 429, 500}}
    \cup {[status |-> 200, body |-> b, content |-> <<>>] : b \in {"not_json", "no_choices", "null_content"}}
    \cup {[status |-> 200, body |-> "choices", content |-> c] : c \in Contents}

-----------------------------------------------------------------------------
(* unified_fetcher_v3.py: the unified AI call *)

FREE_OPENROUTER_MODELS ==
    <<"meta-llama/llama-3.3-70b-instruct:free",
      "mistralai/mistral-small-3.1-24b-instruct:free",
      "alibaba/tongyi-deepresearch-30b-a3b:free",
      "allenai/olmo-3-32b-think:free",
      "cognitivecomputations/dolphin-mistral-24b-venice-edition:free",
      "openai/gpt-oss-120b:free",
      "openai/gpt-oss-20b:free",
      "tngtech/deepseek-r1t2-chimera:free",
      "tngtech/deepseek-r1t-chimera:free",
      "tngtech/tng-r1t-chimera:free",
      "moonshotai/kimi-k2:free",
      "kwaipilot/kat-coder-pro:free",
      "qwen/qwen3-coder:free",
      "qwen/qwen3-4b:free",
      "z-ai/glm-4.5-air:free",
      "meituan/longcat-flash-chat:free",
      "google/gemma-3n-e4b-it:free",
      "google/gemma-3n-e2b-it:free",
      "google/gemma-3-4b-it:free",
      "arcee-ai/trinity-mini:free",
      "amazon/nova-2-lite-v1:free">>

\* all_data of main(): every key is present, with None for what was not fetched
AllData(s) ==
    [jpy |-> StoreGet(s, "market.JPY"), cnh |-> StoreGet(s, "market.CNH"),
     tnx |-> StoreGet(s, "market.TNX"), move |-> StoreGet(s, "market.MOVE"),
     vix |-> StoreGet(s, "market.VIX"), btc_10y |-> StoreGet(s, "treasury.10y_bid_to_cover"),
     btc_price |-> StoreGet(s, "market.BTC"), eth_price |-> StoreGet(s, "market.ETH"),
     btc_rsi |-> StoreGet(s, "crypto.BTC.rsi"), btc_trend |-> StoreGet(s, "crypto.BTC.trend"),
     fng_value |-> StoreGet(s, "fng.value"), fng_class |-> StoreGet(s, "fng.classification"),
     oil |-> StoreGet(s, "market.OIL"), dxy |-> StoreGet(s, "market.DXY"),
     gold |-> StoreGet(s, "market.GOLD"), sp500 |-> StoreGet(s, "market.SP500"),
     tasi |-> StoreGet(s, "market.TASI"), news_headlines |-> "str", arxiv_summary |-> "str"]

\* the prompt f-string of call_unified_ai: the two prices carry the format
\* spec ",.0f"; every other field is interpolated without one
UnifiedPromptRaises(all_data) ==
    \/ FormatRaises(DictGet(all_data, "btc_price", "num"), ",.0f")
    \/ FormatRaises(DictGet(all_data, "eth_price", "num"), ",.0f")

\* faulty variant of UnifiedAttempt: end = content.rfind('}'), so that the slice
\* loses its closing brace and no text parses
UnifiedAttemptShortSlice(resp) ==
    IF resp.status = 200 /\ resp.body = "choices"
    THEN LET start == PyFind(resp.content, "{")
             end == PyRFind(resp.content, "}")
         IN  IF start # -1 /\ end > start
             THEN LET parsed == json_loads(PySlice(resp.content, start, end))
                  IN  IF parsed = "JSONDecodeError"
                      THEN [returned |-> FALSE, value |-> None]
                      ELSE [returned |-> TRUE, value |-> parsed]
             ELSE [returned |-> FALSE, value |-> None]
    ELSE [returned |-> FALSE, value |-> None]

\* one iteration of the model loop on the answer resp: [returned, value]
UnifiedAttempt(resp) ==
    IF resp.status = 200 /\ resp.body = "choices"
    THEN LET start == PyFind(resp.content, "{")
             end == PyRFind(resp.content, "}") + 1
         IN  IF start # -1 /\ end > start
             THEN LET parsed == json_loads(PySlice(resp.content, start, end))
                  IN  IF parsed = "JSONDecodeError"
                      THEN [returned |-> FALSE, value |-> None]
                      ELSE [returned |-> TRUE, value |-> parsed]
             ELSE [returned |-> FALSE, value |-> None]
    ELSE [returned |-> FALSE, value |-> None]

\* the condition of the fallback chain as the specification words it: status
\* 200 and the text from the first "{" to the last "}" parses as JSON
BracedText(content) ==
    LET opens == {i \in 1..Len(content) : content[i] = "{"}
        closes == {i \in 1..Len(content) : content[i] = "}"}
    IN  IF opens = {} \/ closes = {} THEN <<>>
        ELSE LET a == CHOOSE i \in opens : \A j \in opens : i <= j
                 b == CHOOSE i \in closes : \A j \in closes : j <= i
             IN  IF a < b THEN [i \in 1..(b - a + 1) |-> content[a + i - 1]] ELSE <<>>

MeetsCondition(resp) ==
    /\ resp.status = 200
    /\ resp.body = "choices"
    /\ json_loads(BracedText(resp.content)) # "JSONDecodeError"

\* what is recorded of one request: the model, whether its answer met the
\* condition, and the object it then carried
LogEntry(model, resp) ==
    [model |-> model,
     met |-> MeetsCondition(resp),
     obj |-> IF MeetsCondition(resp) THEN json_loads(BracedText(resp.content)) ELSE None]

\* entry of call_unified_ai from main(): the guards, then the prompt
call_unified_ai ==
    /\ pc = "step2"
    /\ aiCalls' = aiCalls + 1
    /\ http' = "none"
    /\ IF AI_QUOTA_EXCEEDED \/ args.no_ai \/ ~REQUESTS_AVAILABLE \/ ~env.key
       THEN /\ pc' = V3Order[1]
            /\ ai_result' = None
            /\ log' = log \o <<"ai_call", "ai_return">>
            /\ UNCHANGED aiIdx
       ELSE IF UnifiedPromptRaises(AllData(store))
       THEN /\ pc' = "crashed"
            /\ log' = Append(log, "ai_call")
            /\ UNCHANGED <<ai_result, aiIdx>>
       ELSE /\ pc' = "ai_loop"
            /\ aiIdx' = 1
            /\ log' = Append(log, "ai_call")
            /\ UNCHANGED ai_result
    /\ UNCHANGED <<args, env, store, reqs, outages, AI_QUOTA_EXCEEDED, aiLog, outVars, sideVars>>

\* one iteration of "for model in FREE_OPENROUTER_MODELS": one POST
unified_ai_request ==
    /\ pc = "ai_loop"
    /\ ~AI_QUOTA_EXCEEDED
    /\ \E resp \in Responses :
        LET model == FREE_OPENROUTER_MODELS[aiIdx]
            r == UnifiedAttempt(resp)
        IN  /\ http' = model
            /\ aiLog' = Append(aiLog, LogEntry(model, resp))
            /\ IF r.returned
               THEN /\ ai_result' = r.value
                    /\ pc' = V3Order[1]
                    /\ log' = Append(log, "ai_return")
                    /\ UNCHANGED aiIdx
               ELSE IF aiIdx = Len(FREE_OPENROUTER_MODELS)
               THEN /\ ai_result' = None
                    /\ pc' = V3Order[1]
                    /\ log' = Append(log, "ai_return")
                    /\ UNCHANGED aiIdx
               ELSE /\ aiIdx' = aiIdx + 1
                    /\ UNCHANGED <<pc, ai_result, log>>
    /\ UNCHANGED <<args, env, store, reqs, outages, AI_QUOTA_EXCEEDED, aiCalls, outVars, sideVars>>

-----------------------------------------------------------------------------
(* unified_fetcher_v3.py: the dashboard builders and main() step 3 *)

\* what a builder takes from the unified result: the section of its dashboard
\* when the result is a non-empty dict holding it, its defaults otherwise
SectionOf(ai, folder) == IF Truthy(ai) /\ ai = "{k}" THEN "ai" ELSE "default"

build_shield_data(ai) ==
    [dashboard |-> "the-shield", ai_arg |-> ai, btc_price |-> Absent,
     oil |-> Absent, sp500 |-> Absent]

build_coin_data(ai) ==
    [dashboard |-> "the-coin", ai_arg |-> ai, btc_price |-> StoreGet(store, "market.BTC"),
     oil |-> Absent, sp500 |-> Absent]

build_map_data(ai) ==
    [dashboard |-> "the-map", ai_arg |-> ai, btc_price |-> Absent,
     oil |-> StoreGet(store, "market.OIL"), sp500 |-> StoreGet(store, "market.SP500")]

build_frontier_data(ai) ==
    [dashboard |-> "the-frontier", ai_arg |-> ai, btc_price |-> Absent,
     oil |-> Absent, sp500 |-> Absent]

build_library_data(ai) ==
    [dashboard |-> "the-library", ai_arg |-> ai, btc_price |-> Absent,
     oil |-> Absent, sp500 |-> Absent]

build_strategy_data(ai) ==
    [dashboard |-> "the-strategy", ai_arg |-> ai, btc_price |-> Absent,
     oil |-> Absent, sp500 |-> Absent]

\* faulty variant of build_commander_data: the unified result is not used
build_commander_data_without_ai(ai) ==
    [dashboard |-> "the-commander", ai_arg |-> None, btc_price |-> Absent,
     oil |-> Absent, sp500 |-> Absent]

build_commander_data(ai) ==
    [dashboard |-> "the-commander", ai_arg |-> ai, btc_price |-> Absent,
     oil |-> Absent, sp500 |-> Absent]

V3BuildData(folder, ai) ==
    CASE folder = "the-shield" -> build_shield_data(ai)
      [] folder = "the-coin" -> build_coin_data(ai)
      [] folder = "the-map" -> build_map_data(ai)
      [] folder = "the-frontier" -> build_frontier_data(ai)
      [] folder = "the-library" -> build_library_data(ai)
      [] folder = "the-strategy" -> build_strategy_data(ai)
      [] folder = "the-commander" -> build_commander_data(ai)

\* one "if run_all or target_app == ..." block of main(): build and save
v3_build_block(i) ==
    /\ pc = V3Order[i]
    /\ IF args.run_all \/ args.target_app = V3Order[i]
       THEN /\ dashboards' = Append(dashboards, V3Order[i])
            /\ files' = [files EXCEPT ![V3Order[i]] = V3BuildData(V3Order[i], ai_result)]
            /\ analysis' = SectionOf(ai_result, V3Order[i])
            /\ log' = Append(log, "write")
       ELSE UNCHANGED <<dashboards, analysis, files, log>>
    /\ pc' = IF i = Len(V3Order) THEN "done" ELSE V3Order[i + 1]
    /\ http' = "none"
    \* the frame of call_unified_ai is gone
    /\ aiIdx' = 0
    /\ aiLog' = <<>>
    /\ UNCHANGED <<args, env, store, reqs, outages, AI_QUOTA_EXCEEDED, ai_result, aiCalls, sideVars>>

NextV3 ==
    \/ fetch_market_data
    \/ fetch_crypto_indicators
    \/ fetch_treasury_data
    \/ fetch_fear_and_greed
    \/ fetch_news
    \/ fetch_arxiv_papers
    \/ call_unified_ai
    \/ unified_ai_request
    \/ \E i \in 1..Len(V3Order) : v3_build_block(i)

SpecV3 == InitRun /\ [][NextV3]_vars

-----------------------------------------------------------------------------
(* Properties of unified_fetcher_v3.py *)

V3Finished == pc \in {"done", "crashed"}

AllSevenWritten == \A f \in Folders : files[f] # NoFile

\* C1: with an OpenRouter key configured, a run of v3 main with --all ends
\* normally and has written latest.json for all seven dashboards, whatever
\* fetches failed.
C1_RunAllWritesAllSeven ==
    (args.run_all /\ env.key /\ V3Finished) => (pc = "done" /\ AllSevenWritten)

\* the run of C1 that ends in the TypeError of the prompt: the BTC or ETH price
\* was not fetched, the key is set and AI is enabled
C1_PromptCrash ==
    /\ pc = "crashed"
    /\ args.run_all /\ env.key /\ ~args.no_ai
    /\ StoreGet(store, "market.BTC") = None \/ StoreGet(store, "market.ETH") = None
    /\ ~AllSevenWritten

V3CallReturned == pc = V3Order[1]

\* C3: call_unified_ai requests the models of FREE_OPENROUTER_MODELS in list
\* order, each at most once (at most 21 requests); it stops at the first model
\* whose answer has status 200 and a text that parses as JSON between its first
\* "{" and last "}", and returns that object; it returns None exactly when no
\* model met the condition.
C3_OrderedFallback ==
    /\ Len(aiLog) <= Len(FREE_OPENROUTER_MODELS)
    /\ \A i \in 1..Len(aiLog) : aiLog[i].model = FREE_OPENROUTER_MODELS[i]
    /\ \A i \in 1..(Len(aiLog) - 1) : ~aiLog[i].met
    /\ pc = "ai_loop" => \A i \in 1..Len(aiLog) : ~aiLog[i].met
    /\ V3CallReturned =>
          /\ ai_result = None <=> \A i \in 1..Len(aiLog) : ~aiLog[i].met
          /\ ai_result # None => ai_result = aiLog[Len(aiLog)].obj
          /\ ai_result = None /\ aiLog # <<>> => Len(aiLog) = Len(FREE_OPENROUTER_MODELS)

\* the call returned the object of the third model after two models failed
C3_Witness ==
    /\ V3CallReturned
    /\ Len(aiLog) = 3
    /\ aiLog[3].met
    /\ ai_result = "{k}"

\* C7: in one run of v3 main call_unified_ai is invoked exactly once whatever
\* --all/--app selects, every dashboard saved in the run was built from that
\* one ai_result, and no build step sends an AI request.
C7_SingleUnifiedCall ==
    /\ aiCalls <= 1
    /\ pc \in Folders \cup {"done"} => aiCalls = 1
    /\ \A f \in Folders : files[f] # NoFile => files[f].ai_arg = ai_result
    /\ dashboards # <<>> => http = "none"

\* a run with --all that got an analysis from the AI and saved all dashboards
C7_Witness ==
    /\ pc = "done"
    /\ args.run_all
    /\ ai_result = "{k}"
    /\ AllSevenWritten
    /\ aiCalls = 1

-----------------------------------------------------------------------------
(* unified_fetcher_v2.py: call_ai, the analyze_* functions and main() step 2 *)

\* the dashboards in the order of the waterfall of v2 main
V2Order ==
    <<"the-shield", "the-map", "the-coin", "the-frontier", "the-library",
      "the-strategy", "the-commander">>

\* models_to_try of call_ai; its models parameter is not used
models_to_try == <<"gemini-2.5-pro", "gemini-1.5-pro", "gemini-1.5-flash">>

\* a value call_ai returns: None or a text
PyNone == [none |-> TRUE, text |-> <<>>]

PyText(content) == [none |-> FALSE, text |-> content]

\* faulty variant of GeminiAttempt: a 429 moves on to the next model, as it
\* does in unified_fetcher_v3.py
GeminiAttemptIgnoringQuota(resp) ==
    IF resp.status = 200 /\ resp.body \in {"choices", "null_content"}
    THEN [kind |-> "return",
          value |-> IF resp.body = "choices" THEN PyText(resp.content) ELSE PyNone]
    ELSE [kind |-> "next", value |-> PyNone]

\* faulty variant of GeminiAttempt: a text is returned only when it parses as
\* JSON between its braces; any other text moves on to the next model
GeminiAttemptParsedOnly(resp) ==
    IF MeetsCondition(resp)
    THEN [kind |-> "return", value |-> PyText(resp.content)]
    ELSE IF resp.status = 429
    THEN [kind |-> "quota", value |-> PyNone]
    ELSE [kind |-> "next", value |-> PyNone]

\* one iteration of "for model in models_to_try" on the answer resp: the text
\* of the first candidate is returned as it is; a 429 ends the call; anything
\* else (status, exception, no candidate, unparsable body) moves on
GeminiAttempt(resp) ==
    IF resp.status = 200 /\ resp.body \in {"choices", "null_content"}
    THEN [kind |-> "return",
          value |-> IF resp.body = "choices" THEN PyText(resp.content) ELSE PyNone]
    ELSE IF resp.status = 429
    THEN [kind |-> "quota", value |-> PyNone]
    ELSE [kind |-> "next", value |-> PyNone]

\* what is recorded of one request of call_ai (v2) and AIFetcher.call_ai (v1):
\* the model, whether the answer was a 200 with a completion, whether that
\* completion held a text, whether the answer was a 429, whether the text
\* parses as JSON between its braces, and that object
AnswerLogEntry(model, resp) ==
    [model |-> model,
     answered |-> resp.status = 200 /\ resp.body \in {"choices", "null_content"},
     text |-> resp.status = 200 /\ resp.body = "choices",
     quota |-> resp.status = 429,
     met |-> MeetsCondition(resp),
     obj |-> IF MeetsCondition(resp) THEN json_loads(BracedText(resp.content)) ELSE None]

\* the guards of call_ai that return None before any request
CallAIDisabled == AI_QUOTA_EXCEEDED \/ args.no_ai \/ ~REQUESTS_AVAILABLE \/ ~env.key

\* "if result: try: ... json.loads(result[start:end]) ... except: pass" of the
\* analyze_* functions: the analysis of the parsed object, else the defaults
AnalysisFrom(value) ==
    IF value.none \/ value.text = <<>> THEN "default"
    ELSE LET start == PyFind(value.text, "{")
             end == PyRFind(value.text, "}") + 1
         IN  IF start # -1 /\ end > start
             THEN (IF json_loads(PySlice(value.text, start, end)) = "{k}" THEN "ai" ELSE "default")
             ELSE "default"

\* ai_result as the model keeps it: None, or "str" for a text
Returned(value) == IF value.none THEN None ELSE "str"

\* the prompt f-strings of the analyze_* functions that carry a format spec
V2PromptRaises(folder) ==
    CASE folder = "the-coin" ->
            \/ FormatRaises(StoreGet(store, "market.BTC"), ",.0f")
            \/ FormatRaises(StoreGet(store, "market.ETH"), ",.0f")
      [] folder = "the-map" ->
            \E n \in {"OIL", "DXY", "GOLD", "SP500", "TASI", "TNX"} :
                FormatRaises(StoreGet(store, "market." \o n), ".2f")
      [] folder = "the-commander" ->
            \/ FormatRaises(DictGet(files["the-coin"], "btc_price", "num"), ",.0f")
            \/ FormatRaises(DictGet(files["the-map"], "oil", "num"), ".2f")
            \/ FormatRaises(DictGet(files["the-map"], "sp500", "num"), ".2f")
      [] OTHER -> FALSE

\* analyze_the_library asks the AI only when there are articles
V2CallsAI(folder) == folder # "the-library" \/ Truthy(StoreGet(store, "news.articles"))

\* the dict an analyze_* function returns, as far as later code reads it
V2Data(folder) ==
    [dashboard |-> folder, ai_arg |-> Absent,
     btc_price |-> IF folder = "the-coin" THEN StoreGet(store, "market.BTC") ELSE Absent,
     oil |-> IF folder = "the-map" THEN StoreGet(store, "market.OIL") ELSE Absent,
     sp500 |-> IF folder = "the-map" THEN StoreGet(store, "market.SP500") ELSE Absent]

V2After(i) == IF i = Len(V2Order) THEN "done" ELSE V2Order[i + 1]

V2InCall(i) == "call_ai:" \o V2Order[i]

\* the rest of an analyze_* function once call_ai has returned value, and
\* save_dashboard
v2_finish(i, value) ==
    /\ analysis' = AnalysisFrom(value)
    /\ dashboards' = Append(dashboards, V2Order[i])
    /\ files' = [files EXCEPT ![V2Order[i]] = V2Data(V2Order[i])]
    /\ pc' = V2After(i)

\* one "if run_all or target_app == ..." block of main(), up to the first
\* request of call_ai, or to save_dashboard when no request is sent
v2_analyze(i) ==
    /\ pc = V2Order[i] \/ (i = 1 /\ pc = "step2")
    /\ http' = "none"
    \* the frame of the previous call_ai is gone
    /\ aiLog' = <<>>
    /\ IF ~(args.run_all \/ args.target_app = V2Order[i])
       THEN /\ pc' = V2After(i)
            /\ UNCHANGED <<AI_QUOTA_EXCEEDED, ai_result, aiCalls, aiIdx, outVars, log>>
       ELSE IF V2PromptRaises(V2Order[i])
       THEN /\ pc' = "crashed"
            /\ UNCHANGED <<AI_QUOTA_EXCEEDED, ai_result, aiCalls, aiIdx, outVars, log>>
       ELSE IF ~V2CallsAI(V2Order[i])
       THEN /\ v2_finish(i, PyNone)
            /\ log' = Append(log, "write")
            /\ UNCHANGED <<AI_QUOTA_EXCEEDED, ai_result, aiCalls, aiIdx>>
       ELSE IF CallAIDisabled
       THEN /\ v2_finish(i, PyNone)
            /\ aiCalls' = aiCalls + 1
            /\ ai_result' = None
            /\ log' = log \o <<"ai_call", "ai_return", "write">>
            /\ UNCHANGED <<AI_QUOTA_EXCEEDED, aiIdx>>
       ELSE /\ pc' = V2InCall(i)
            /\ aiCalls' = aiCalls + 1
            /\ aiIdx' = 1
            /\ log' = Append(log, "ai_call")
            /\ UNCHANGED <<AI_QUOTA_EXCEEDED, ai_result, outVars>>
    /\ UNCHANGED <<args, env, store, reqs, outages, sideVars>>

\* one iteration of "for model in models_to_try": one POST; when it ends the
\* call, the analyze_* function finishes and the dashboard is saved
v2_ai_request(i) ==
    /\ pc = V2InCall(i)
    /\ ~AI_QUOTA_EXCEEDED
    /\ \E resp \in Responses :
        LET model == models_to_try[aiIdx]
            r == GeminiAttempt(resp)
        IN  /\ http' = model
            /\ aiLog' = Append(aiLog, AnswerLogEntry(model, resp))
            /\ IF r.kind = "next" /\ aiIdx < Len(models_to_try)
               THEN /\ aiIdx' = aiIdx + 1
                    /\ UNCHANGED <<pc, AI_QUOTA_EXCEEDED, ai_result, outVars, log>>
               ELSE /\ AI_QUOTA_EXCEEDED' = (r.kind = "quota")
                    /\ ai_result' = Returned(r.value)
                    /\ v2_finish(i, r.value)
                    /\ log' = log \o <<"ai_return", "write">>
                    /\ UNCHANGED aiIdx
    /\ UNCHANGED <<args, env, store, reqs, outages, aiCalls, sideVars>>

NextV2 ==
    \/ fetch_market_data
    \/ fetch_crypto_indicators
    \/ fetch_treasury_data
    \/ fetch_fear_and_greed
    \/ fetch_news
    \/ fetch_arxiv_papers
    \/ \E i \in 1..Len(V2Order) : v2_analyze(i)
    \/ \E i \in 1..Len(V2Order) : v2_ai_request(i)

SpecV2 == InitRun /\ [][NextV2]_vars

-----------------------------------------------------------------------------
(* Properties of unified_fetcher_v2.py *)

V2Finished == pc \in {"done", "crashed"}

\* C2: a run of v2 main with --all ends normally and has written latest.json
\* for all seven dashboards, whatever ticker prices could not be fetched, with
\* or without --no-ai.
C2_RunAllWritesAllSeven ==
    (args.run_all /\ V2Finished) => (pc = "done" /\ AllSevenWritten)

\* the run of C2 that ends in the TypeError of a prompt although --no-ai is
\* given: a price the prompt formats was not fetched
C2_PromptCrash ==
    /\ pc = "crashed"
    /\ args.run_all /\ args.no_ai
    /\ ~AllSevenWritten

V2CallStates == {V2InCall(i) : i \in 1..Len(V2Order)}

\* C8: in v2, the call_ai that receives a 429 returns None at once, without
\* trying the remaining models; from then on AI_QUOTA_EXCEEDED stays True,
\* every call_ai returns None and no request is sent to any AI model.
C8_QuotaDisablesAI ==
    /\ [](aiLog # <<>> /\ aiLog[Len(aiLog)].quota
            => AI_QUOTA_EXCEEDED /\ ai_result = None /\ pc \notin V2CallStates)
    /\ [][AI_QUOTA_EXCEEDED
            => AI_QUOTA_EXCEEDED' /\ http' = "none" /\ ai_result' = None
               /\ pc' \notin V2CallStates]_vars

\* a run with --all in which the first call_ai hit the quota and the six
\* later analyses went on without AI
C8_Witness ==
    /\ AI_QUOTA_EXCEEDED
    /\ pc = "done"
    /\ args.run_all
    /\ aiCalls = Len(V2Order)
    /\ dashboards = V2Order

\* C9: during one run of v2 no upstream resource (Yahoo Finance symbol,
\* Treasury endpoint, Fear & Greed endpoint, RSS feed, arXiv query) is
\* requested more than once.
C9_NoDuplicateRequests == \A r \in Resources : reqs[r] <= 1

\* a run in which nothing failed and BTC-USD was requested by fetch_market_data
\* and again by fetch_crypto_indicators
C9_DuplicateWitness ==
    /\ outages = 0
    /\ pc = "done"
    /\ reqs["BTC-USD"] = 2
    /\ reqs["ETH-USD"] = 2

-----------------------------------------------------------------------------
(* unified_fetcher.py: FetchResult, the cache of BaseFetcher, the fetchers *)

FetchResult(success, data, source, fetched_at, error) ==
    [kind |-> "FetchResult", success |-> success, data |-> data, source |-> source,
     fetched_at |-> fetched_at, error |-> error]

\* the call did not return: the exception left the method
Raised(exception) ==
    [kind |-> "raised", success |-> FALSE, data |-> None, source |-> None,
     fetched_at |-> 0, error |-> exception]

\* A cache file.  kind: "missing" no file, "invalid" not a JSON document,
\* "not_object" a JSON document that is no object, "dict" a JSON object.
\* fetched_at of a dict: "absent" no such key, "null", "number", "garbage" a
\* string that is no ISO date, "naive" an ISO date without offset, "aware"
\* an ISO date with offset, "Z" an ISO date ending in Z; t is its instant.
MissingFile == [kind |-> "missing", fetched_at |-> "absent", t |-> 0, has_data |-> FALSE]

\* a file whose write was cut short
TornFile == [kind |-> "invalid", fetched_at |-> "absent", t |-> 0, has_data |-> FALSE]

\* {'data': ..., 'fetched_at': datetime.now(timezone.utc).isoformat()}
CacheEntry(t) == [kind |-> "dict", fetched_at |-> "aware", t |-> t, has_data |-> TRUE]

\* lines 142-144 of get_cached: the age of the entry, or the exception raised
CachedAge(file, t_now) ==
    IF file.kind = "invalid" THEN [raised |-> "JSONDecodeError", age |-> 0]
    ELSE IF file.kind = "not_object" THEN [raised |-> "AttributeError", age |-> 0]
    ELSE IF file.fetched_at \in {"null", "number"} THEN [raised |-> "AttributeError", age |-> 0]
    ELSE IF file.fetched_at = "garbage" THEN [raised |-> "ValueError", age |-> 0]
    \* the default '2000-01-01' is naive: aware - naive raises TypeError
    ELSE IF file.fetched_at \in {"absent", "naive"} THEN [raised |-> "TypeError", age |-> 0]
    ELSE [raised |-> None, age |-> t_now - file.t]

\* faulty variant of FreshEnough: an entry exactly max_age_seconds old is fresh
FreshEnoughInclusive(age, max_age_seconds) == age <= max_age_seconds

\* the comparison of get_cached
FreshEnough(age, max_age_seconds) == age < max_age_seconds

\* BaseFetcher.get_cached: [none, entry, raised]
get_cached(file, t_now, max_age_seconds) ==
    IF file.kind = "missing" THEN [none |-> TRUE, entry |-> MissingFile, raised |-> None]
    ELSE LET a == CachedAge(file, t_now)
         IN  IF a.raised = None /\ FreshEnough(a.age, max_age_seconds)
             THEN [none |-> FALSE, entry |-> file, raised |-> None]
             ELSE [none |-> TRUE, entry |-> MissingFile, raised |-> None]

\* faulty variant of set_cache: the entry is written without its 'data'
set_cache_without_data(c, key, data) == [c EXCEPT ![key] = [data EXCEPT !.has_data = FALSE]]

\* BaseFetcher.set_cache
set_cache(c, key, data) == [c EXCEPT ![key] = data]

\* "if cached: return FetchResult(True, cached['data'], source, cached['fetched_at'])"
FromCache(cached, source) ==
    IF cached.entry.has_data
    THEN FetchResult(TRUE, "cached['data']", source, cached.entry.t, None)
    ELSE Raised("KeyError")

\* the cache keys of the six fetcher methods, for one ticker and one query
CacheKeys ==
    {"market_BTC-USD_1d", "market_full_BTC_USD", "treasury_10_Year_Note",
     "rss_news", "fng", "arxiv_query_10"}

\* the max_age_seconds the fetcher methods pass to get_cached
MaxAges == {60, 300, 600, 900, 3600}

\* clock advances: to one second before an entry expires, and to its expiry
Deltas == {m - 1 : m \in MaxAges} \cup MaxAges

\* one call or clock advance of the session
V1Step ==
    /\ pc = "v1"
    /\ steps < MaxSteps
    /\ steps' = steps + 1
    /\ UNCHANGED <<runVars, site, mainVars, poolVars>>

\* MarketFetcher.fetch_ticker('BTC-USD'); the outcomes are those of
\* TickerOutcomes: fast_info, the history fallback, no row, an exception
fetch_ticker ==
    /\ V1Step
    /\ IF ~YFINANCE_AVAILABLE
       THEN /\ result' = FetchResult(FALSE, None, "yfinance", now, "yfinance not available")
            /\ UNCHANGED cache
       ELSE LET cached == get_cached(cache["market_BTC-USD_1d"], now, 60)
            IN  IF ~cached.none
                THEN /\ result' = FromCache(cached, "yfinance")
                     /\ UNCHANGED cache
                ELSE \E o \in TickerOutcomes :
                        IF TickerPrice(o) # None
                        THEN /\ cache' = set_cache(cache, "market_BTC-USD_1d", CacheEntry(now))
                             /\ result' = FetchResult(TRUE, "data", "yfinance", now, None)
                        ELSE /\ result' = FetchResult(FALSE, None, "yfinance", now,
                                                      IF o = "none" THEN "No data found" ELSE "str(e)")
                             /\ UNCHANGED cache
    /\ UNCHANGED now

\* MarketFetcher.fetch_with_indicators('BTC-USD')
fetch_with_indicators ==
    /\ V1Step
    /\ IF ~YFINANCE_AVAILABLE \/ ~PANDAS_AVAILABLE
       THEN /\ result' = FetchResult(FALSE, None, "yfinance", now, "Dependencies not available")
            /\ UNCHANGED cache
       ELSE LET cached == get_cached(cache["market_full_BTC_USD"], now, 300)
            IN  IF ~cached.none
                THEN /\ result' = FromCache(cached, "yfinance")
                     /\ UNCHANGED cache
                ELSE \E o \in CryptoOutcomes :
                        IF o \in {"ok", "nan"}
                        THEN /\ cache' = set_cache(cache, "market_full_BTC_USD", CacheEntry(now))
                             /\ result' = FetchResult(TRUE, "data", "yfinance", now, None)
                        ELSE /\ result' = FetchResult(FALSE, None, "yfinance", now,
                                                      IF o = "empty" THEN "No data" ELSE "str(e)")
                             /\ UNCHANGED cache
    /\ UNCHANGED now

\* TreasuryFetcher.fetch_auction()
fetch_auction ==
    /\ V1Step
    /\ IF ~REQUESTS_AVAILABLE
       THEN /\ result' = FetchResult(FALSE, None, "treasury", now, "requests not available")
            /\ UNCHANGED cache
       ELSE LET cached == get_cached(cache["treasury_10_Year_Note"], now, 300)
            IN  IF ~cached.none
                THEN /\ result' = FromCache(cached, "treasury")
                     /\ UNCHANGED cache
                ELSE \E o \in TreasuryOutcomes :
                        IF o = "ok"
                        THEN /\ cache' = set_cache(cache, "treasury_10_Year_Note", CacheEntry(now))
                             /\ result' = FetchResult(TRUE, "data", "treasury", now, None)
                        ELSE /\ result' = FetchResult(FALSE, None, "treasury", now,
                                                      IF o = "empty" THEN "No data" ELSE "str(e)")
                             /\ UNCHANGED cache
    /\ UNCHANGED now

\* NewsFetcher._fetch_rss_simple: no cache; a feed that fails is skipped
_fetch_rss_simple ==
    IF ~REQUESTS_AVAILABLE
    THEN FetchResult(FALSE, "default", "rss", now, "No HTTP available")
    ELSE FetchResult(TRUE, "data", "rss", now, None)

\* NewsFetcher.fetch_rss(): a feed that fails is skipped; "exc" is an
\* exception outside the loop over the feeds (the cache cannot be written)
fetch_rss ==
    /\ V1Step
    /\ IF ~FEEDPARSER_AVAILABLE
       THEN /\ result' = _fetch_rss_simple
            /\ UNCHANGED cache
       ELSE LET cached == get_cached(cache["rss_news"], now, 600)
            IN  IF ~cached.none
                THEN /\ result' = FromCache(cached, "rss")
                     /\ UNCHANGED cache
                ELSE \E o \in {"ok", "exc"} :
                        IF o = "ok"
                        THEN /\ cache' = set_cache(cache, "rss_news", CacheEntry(now))
                             /\ result' = FetchResult(TRUE, "data", "rss", now, None)
                        ELSE /\ result' = FetchResult(FALSE, "default", "rss", now, "str(e)")
                             /\ UNCHANGED cache
    /\ UNCHANGED now

\* CryptoFetcher.fetch_fear_and_greed(): "exc" covers a network error and a
\* payload without data[0].value
v1_fetch_fear_and_greed ==
    /\ V1Step
    /\ IF ~REQUESTS_AVAILABLE
       THEN /\ result' = FetchResult(FALSE, "default", "fng", now, "requests not available")
            /\ UNCHANGED cache
       ELSE LET cached == get_cached(cache["fng"], now, 900)
            IN  IF ~cached.none
                THEN /\ result' = FromCache(cached, "fng")
                     /\ UNCHANGED cache
                ELSE \E o \in {"ok", "exc"} :
                        IF o = "ok"
                        THEN /\ cache' = set_cache(cache, "fng", CacheEntry(now))
                             /\ result' = FetchResult(TRUE, "data", "fng", now, None)
                        ELSE /\ result' = FetchResult(FALSE, "default", "fng", now, "str(e)")
                             /\ UNCHANGED cache
    /\ UNCHANGED now

\* ArxivFetcher.fetch_papers(query): no library guard
fetch_papers ==
    /\ V1Step
    /\ LET cached == get_cached(cache["arxiv_query_10"], now, 3600)
       IN  IF ~cached.none
           THEN /\ result' = FromCache(cached, "arxiv")
                /\ UNCHANGED cache
           ELSE \E o \in {"ok", "exc"} :
                   IF o = "ok"
                   THEN /\ cache' = set_cache(cache, "arxiv_query_10", CacheEntry(now))
                        /\ result' = FetchResult(TRUE, "data", "arxiv", now, None)
                   ELSE /\ result' = FetchResult(FALSE, "default", "arxiv", now, "str(e)")
                        /\ UNCHANGED cache
    /\ UNCHANGED now

\* a process killed inside write_text of set_cache leaves a torn file
interrupted_write ==
    /\ V1Step
    /\ \E key \in CacheKeys : cache' = set_cache(cache, key, TornFile)
    /\ result' = NoResult
    /\ UNCHANGED now

\* time passes between two calls
advance_clock ==
    /\ V1Step
    /\ \E d \in Deltas : now' = now + d
    /\ UNCHANGED <<cache, result>>

\* the run variables of the v2/v3 scripts, unused by unified_fetcher.py
IdleRun(label) ==
    /\ pc = label
    /\ args = [run_all |-> TRUE, target_app |-> None, no_ai |-> FALSE]
    /\ store = [k \in StoreKeys |-> Absent]
    /\ reqs = [r \in Resources |-> 0]
    /\ outages = 0
    /\ AI_QUOTA_EXCEEDED = FALSE
    /\ ai_result = None
    /\ aiCalls = 0
    /\ aiIdx = 0
    /\ aiLog = <<>>
    /\ http = "none"
    /\ dashboards = <<>>
    /\ analysis = "default"
    /\ files = [f \in Folders |-> NoFile]
    /\ log = <<>>

\* a session of fetcher calls on an empty cache directory
InitV1Fetch ==
    /\ IdleRun("v1")
    /\ env \in Envs
    /\ env.key
    /\ cache = [k \in CacheKeys |-> MissingFile]
    /\ now = 0
    /\ result = NoResult
    /\ steps = 0
    /\ site = NoSite
    /\ IdleMain /\ IdlePool

NextV1Fetch ==
    \/ fetch_ticker
    \/ fetch_with_indicators
    \/ fetch_auction
    \/ fetch_rss
    \/ v1_fetch_fear_and_greed
    \/ fetch_papers
    \/ interrupted_write
    \/ advance_clock

SpecV1Fetch == InitV1Fetch /\ [][NextV1Fetch]_vars

-----------------------------------------------------------------------------
(* Properties of the fetchers of unified_fetcher.py *)

\* C5: every fetcher method returns a FetchResult and never lets an exception
\* out, for every upstream outcome and every cache state the program produces;
\* a failure carries an error string and a success carries error = None.
C5_TaggedResult ==
    /\ result.kind \in {"none", "FetchResult"}
    /\ result.kind = "FetchResult" =>
          /\ result.success => result.error = None
          /\ ~result.success => result.error # None

\* a fetcher answered from the entry an earlier call had cached
C5_Witness ==
    /\ result.kind = "FetchResult"
    /\ result.success
    /\ result.data = "cached['data']"
    /\ result.fetched_at < now

-----------------------------------------------------------------------------
(* BaseFetcher.get_cached on an arbitrary cache file *)

\* instants a file can record, and instants of the call
FileTimes == {0, 60}

CallTimes == {0, 59, 60, 61, 119, 120, 360}

\* every content of a cache file
CacheFiles ==
    {MissingFile, TornFile,
     [kind |-> "not_object", fetched_at |-> "absent", t |-> 0, has_data |-> FALSE]}
    \cup [kind : {"dict"},
          fetched_at : {"absent", "null", "number", "garbage", "naive"},
          t : {0}, has_data : BOOLEAN]
    \cup [kind : {"dict"}, fetched_at : {"aware", "Z"}, t : FileTimes, has_data : BOOLEAN]

\* what get_cached returned, in the shape of result
GetCachedReturn(r) ==
    [kind |-> IF r.raised = None THEN "get_cached" ELSE "raised",
     success |-> ~r.none,
     data |-> IF r.none THEN None ELSE "entry",
     source |-> None,
     fetched_at |-> r.entry.t,
     error |-> r.raised]

\* one call get_cached(key, max_age_seconds) at instant now
InitGetCached ==
    /\ pc = "get_cached"
    /\ args \in [key : {"fng"}, max_age_seconds : {0, 60, 300}]
    /\ env = [missing |-> {}, key |-> TRUE]
    /\ store = [k \in StoreKeys |-> Absent]
    /\ reqs = [r \in Resources |-> 0]
    /\ outages = 0
    /\ AI_QUOTA_EXCEEDED = FALSE
    /\ ai_result = None
    /\ aiCalls = 0
    /\ aiIdx = 0
    /\ aiLog = <<>>
    /\ http = "none"
    /\ dashboards = <<>>
    /\ analysis = "default"
    /\ files = [f \in Folders |-> NoFile]
    /\ log = <<>>
    /\ \E file \in CacheFiles :
          cache = [k \in CacheKeys |-> IF k = args.key THEN file ELSE MissingFile]
    /\ now \in CallTimes
    /\ result = NoResult
    /\ steps = 0
    /\ site = NoSite
    /\ IdleMain /\ IdlePool

call_get_cached ==
    /\ pc = "get_cached"
    /\ pc' = "returned"
    /\ result' = GetCachedReturn(get_cached(cache[args.key], now, args.max_age_seconds))
    /\ steps' = steps + 1
    /\ UNCHANGED <<args, env, store, reqs, outages, aiVars, http, outVars, log, cache, now, site, mainVars, poolVars>>

SpecGetCached == InitGetCached /\ [][call_get_cached]_vars

\* the entry records an instant the code can read
UsableFetchedAt(file) == file.kind = "dict" /\ file.fetched_at \in {"aware", "Z"}

\* C10: get_cached returns the stored entry only when its fetched_at is
\* strictly less than max_age_seconds before now; it returns None, and raises
\* nothing, when the file is missing, unparsable, without a usable fetched_at,
\* or max_age_seconds old or older.
C10_FreshOnly ==
    pc = "returned" =>
        LET file == cache[args.key]
            fresh == UsableFetchedAt(file) /\ now - file.t < args.max_age_seconds
        IN  /\ result.kind = "get_cached"
            /\ result.success <=> fresh
            /\ result.success => result.data = "entry" /\ result.fetched_at = file.t
            /\ ~result.success => result.data = None

\* None for an entry that is exactly max_age_seconds old
C10_Witness ==
    /\ pc = "returned"
    /\ UsableFetchedAt(cache[args.key])
    /\ now - cache[args.key].t = args.max_age_seconds
    /\ args.max_age_seconds > 0
    /\ ~result.success

-----------------------------------------------------------------------------
(* unified_fetcher.py: AIFetcher.call_ai and its caller fetch_for_crash_detector *)

\* models=['llama-70b', 'olmo-32b'] of fetch_for_crash_detector, by MODELS
CrashDetectorModels ==
    <<"meta-llama/llama-3.3-70b-instruct:free", "allenai/olmo-3-32b-think:free">>

\* one iteration of "for model_key in models" on the answer resp:
\* raise_for_status raises on 4xx and 5xx, response.json() on a body that is
\* no JSON, and an answer without choices raises too; the content of the
\* first choice is returned as it is
AIFetcherAttempt(resp) ==
    IF resp.status = 200 /\ resp.body \in {"choices", "null_content"}
    THEN [kind |-> "return",
          value |-> IF resp.body = "choices" THEN PyText(resp.content) ELSE PyNone]
    ELSE [kind |-> "next", value |-> PyNone]

\* lines 738-748 of fetch_for_crash_detector on the content of a success: the
\* parsed object, the defaults when the text has no braces, and the raw
\* content when anything raises (json.loads, or find on a null content)
CrashDetectorInsights(value) ==
    IF value.none THEN "raw"
    ELSE LET start == PyFind(value.text, "{")
             end == PyRFind(value.text, "}") + 1
         IN  IF start # -1 /\ end > start
             THEN (IF json_loads(PySlice(value.text, start, end)) = "JSONDecodeError"
                   THEN "raw" ELSE "ai")
             ELSE "default"

V1AIStates == {"v1:crash_detector", "v1:call_ai", "v1:done"}

\* fetch_for_crash_detector from the default ai_insights to the first request
\* of call_ai; without a key call_ai is not called
crash_detector_ai ==
    /\ pc = "v1:crash_detector"
    /\ analysis' = "default"
    /\ http' = "none"
    /\ IF ~env.key
       THEN /\ pc' = "v1:done"
            /\ UNCHANGED <<aiCalls, aiIdx, aiLog>>
       ELSE /\ pc' = "v1:call_ai"
            /\ aiCalls' = aiCalls + 1
            /\ aiIdx' = 1
            /\ aiLog' = <<>>
    /\ UNCHANGED <<args, env, store, reqs, outages, AI_QUOTA_EXCEEDED, ai_result,
                   dashboards, files, log, sideVars>>

\* one iteration of the loop of AIFetcher.call_ai: one POST; when it ends the
\* call, fetch_for_crash_detector takes its ai_insights from the result
AIFetcher_request ==
    /\ pc = "v1:call_ai"
    \* without the requests library requests.post raises NameError
    /\ \E resp \in IF REQUESTS_AVAILABLE THEN Responses ELSE {r \in Responses : r.status = 0} :
        LET model == CrashDetectorModels[aiIdx]
            r == AIFetcherAttempt(resp)
        IN  /\ http' = IF REQUESTS_AVAILABLE THEN model ELSE "none"
            /\ aiLog' = Append(aiLog, AnswerLogEntry(model, resp))
            /\ IF r.kind = "return"
               THEN /\ result' = FetchResult(TRUE, "content", "openrouter", now, None)
                    /\ analysis' = CrashDetectorInsights(r.value)
                    /\ pc' = "v1:done"
                    /\ UNCHANGED aiIdx
               ELSE IF aiIdx = Len(CrashDetectorModels)
               THEN /\ result' = FetchResult(FALSE, "unavailable", "openrouter", now, "str(last_error)")
                    /\ pc' = "v1:done"
                    /\ UNCHANGED <<aiIdx, analysis>>
               ELSE /\ aiIdx' = aiIdx + 1
                    /\ UNCHANGED <<pc, result, analysis>>
    /\ UNCHANGED <<args, env, store, reqs, outages, AI_QUOTA_EXCEEDED, ai_result, aiCalls,
                   dashboards, files, log, cache, now, steps, site,
                   mainVars, poolVars>>

\* fetch_for_crash_detector once its data is fetched
InitV1AI ==
    /\ IdleRun("v1:crash_detector")
    /\ env \in Envs
    /\ cache = [k \in CacheKeys |-> MissingFile]
    /\ now = 0
    /\ result = NoResult
    /\ steps = 0
    /\ site = NoSite
    /\ IdleMain /\ IdlePool

NextV1AI == crash_detector_ai \/ AIFetcher_request

\* the AI callers of unified_fetcher.py and unified_fetcher_v2.py
SpecAICallers == (InitRun \/ InitV1AI) /\ [][NextV2 \/ NextV1AI]_vars

AICallStates == V2CallStates \cup {"v1:call_ai"}

LastLogged == aiLog[Len(aiLog)]

-----------------------------------------------------------------------------
(* economic-compass: build_site, get_all_data, generate_insight *)

\* the calls of get_all_data, in order
GetAllDataOrder ==
    <<"get_crypto_data:BTC-USD", "get_crypto_data:ETH-USD", "get_macro_data",
      "get_fear_and_greed", "get_news_headlines">>

\* where build_site continues after the fetch call at position i
AfterGet(i) == IF i = Len(GetAllDataOrder) THEN "bs:generate_insight" ELSE GetAllDataOrder[i + 1]

\* MODEL of generate_insight when OPENROUTER_MODEL is not set
InsightModel == "alibaba/tongyi-deepresearch-30b-a3b:free"

\* faulty variant of AfterGetAllDataRaised: build_site goes on to its output
AfterGetAllDataRaisedGoesOn == "bs:prepare_output"

\* "except Exception as e: ... return" around get_all_data in build_site
AfterGetAllDataRaised == "bs:returned"

\* get_crypto_data has no try/except: "exc" (yf.download raises, or the frame
\* has a single row) leaves get_all_data and build_site returns; "empty" is None
get_crypto_data(i) ==
    /\ i \in {1, 2}
    /\ pc = GetAllDataOrder[i]
    /\ \E o \in {"ok", "empty", "exc"} :
        IF o = "exc"
        THEN /\ pc' = AfterGetAllDataRaised
             /\ log' = Append(log, "get_all_data raised")
             /\ UNCHANGED site
        ELSE /\ pc' = AfterGet(i)
             /\ site' = IF i = 1
                        THEN [site EXCEPT !.btc = IF o = "ok" THEN "dict" ELSE None]
                        ELSE [site EXCEPT !.eth = IF o = "ok" THEN "dict" ELSE None]
             /\ log' = Append(log, GetAllDataOrder[i])
    /\ http' = "none"
    /\ UNCHANGED <<args, env, store, reqs, outages, aiVars, outVars, v1Vars, mainVars, poolVars>>

\* get_macro_data, get_fear_and_greed, get_news_headlines: each catches its
\* exceptions and returns its defaults
get_guarded_data(i) ==
    /\ i \in 3..Len(GetAllDataOrder)
    /\ pc = GetAllDataOrder[i]
    /\ pc' = AfterGet(i)
    /\ log' = Append(log, GetAllDataOrder[i])
    /\ http' = "none"
    /\ UNCHANGED <<args, env, store, reqs, outages, aiVars, outVars, sideVars>>

\* generate_insight up to the request: the OpenAI client cannot be built
\* without a key, and build_site then takes its placeholder
generate_insight ==
    /\ pc = "bs:generate_insight"
    /\ aiCalls' = aiCalls + 1
    /\ http' = "none"
    /\ IF ~env.key
       THEN /\ site' = [site EXCEPT !.insight_html = "<p>Error generating insight.</p>"]
            /\ log' = log \o <<"ai_call", "ai_return">>
            /\ pc' = "bs:prepare_output"
       ELSE /\ log' = Append(log, "ai_call")
            /\ pc' = "bs:create"
            /\ UNCHANGED site
    /\ UNCHANGED <<args, env, store, reqs, outages, AI_QUOTA_EXCEEDED, ai_result, aiIdx, aiLog,
                   outVars, v1Vars, mainVars, poolVars>>

\* client.chat.completions.create: the content of the first choice, or the
\* error paragraph when anything raises
chat_completions_create ==
    /\ pc = "bs:create"
    /\ http' = InsightModel
    /\ \E o \in {"content", "null", "exc"} :
        site' = [site EXCEPT !.insight_html =
                    IF o = "content" THEN "html"
                    ELSE IF o = "null" THEN None
                    ELSE "<p>Error generating insight: str(e)</p>"]
    /\ log' = Append(log, "ai_return")
    /\ pc' = "bs:prepare_output"
    /\ UNCHANGED <<args, env, store, reqs, outages, aiVars, outVars, v1Vars, mainVars, poolVars>>

\* steps 3 and 4 of build_site: public is removed and made anew, the static
\* assets are copied
prepare_output ==
    /\ pc = "bs:prepare_output"
    /\ site' = [site EXCEPT !.public = "static", !.rendered = Absent]
    /\ log' = Append(log, "write")
    /\ pc' = "bs:render"
    /\ http' = "none"
    /\ UNCHANGED <<args, env, store, reqs, outages, aiVars, outVars, v1Vars, mainVars, poolVars>>

\* step 5 of build_site: the template is rendered and public/index.html written
render_html ==
    /\ pc = "bs:render"
    /\ \E o \in {"ok", "exc"} :
        IF o = "ok"
        THEN /\ site' = [site EXCEPT !.public = "index.html", !.rendered = site.insight_html]
             /\ log' = Append(log, "write")
             /\ pc' = "bs:done"
        ELSE /\ pc' = "crashed"
             /\ UNCHANGED <<site, log>>
    /\ http' = "none"
    /\ UNCHANGED <<args, env, store, reqs, outages, aiVars, outVars, v1Vars, mainVars, poolVars>>

\* the start of build_site; public may be left from an earlier build
InitBuildSite ==
    /\ IdleRun(GetAllDataOrder[1])
    /\ env \in Envs
    /\ cache = <<>>
    /\ now = 0
    /\ result = NoResult
    /\ steps = 0
    /\ site \in [btc : {Absent}, eth : {Absent}, insight_html : {Absent},
                 public : {"absent", "index.html"}, rendered : {Absent, "html"}]
    /\ site.rendered = Absent <=> site.public = "absent"
    /\ IdleMain /\ IdlePool

NextBuildSite ==
    \/ \E i \in 1..Len(GetAllDataOrder) : get_crypto_data(i)
    \/ \E i \in 1..Len(GetAllDataOrder) : get_guarded_data(i)
    \/ generate_insight
    \/ chat_completions_create
    \/ prepare_output
    \/ render_html

SpecBuildSite == InitBuildSite /\ [][NextBuildSite]_vars

\* the placeholder build_site takes when generate_insight raises
Placeholder == "<p>Error generating insight.</p>"

\* C16: if get_all_data raises, build_site returns without deleting, creating
\* or writing anything under public; if generate_insight raises, the
\* placeholder insight is used and the build goes on to write
\* public/index.html, which then carries the placeholder.
C16_FailureFrames ==
    /\ []( /\ (\E i \in 1..Len(log) : log[i] = "get_all_data raised") =>
               /\ pc = "bs:returned"
               /\ \A i \in 1..Len(log) : log[i] \notin {"ai_call", "ai_return", "write"}
               /\ site.insight_html = Absent
           /\ site.insight_html = Placeholder =>
               /\ ~env.key
               /\ pc \in {"bs:prepare_output", "bs:render", "bs:done", "crashed"}
           /\ (pc = "bs:done" /\ ~env.key) =>
               site.public = "index.html" /\ site.rendered = Placeholder )
    /\ [][(site'.public # site.public \/ site'.rendered # site.rendered) =>
             /\ pc \in {"bs:prepare_output", "bs:render"}
             /\ \A i \in 1..Len(log) : log[i] # "get_all_data raised"]_vars

\* without a key generate_insight raised and index.html was written with the
\* placeholder
C16_Witness ==
    /\ pc = "bs:done"
    /\ ~env.key
    /\ site.insight_html = Placeholder
    /\ site.public = "index.html"
    /\ site.rendered = Placeholder

\* get_all_data raised at the ETH download with an earlier build in public:
\* build_site returned and public is as it was
C16_WitnessReturn ==
    /\ pc = "bs:returned"
    /\ log = <<GetAllDataOrder[1], "get_all_data raised">>
    /\ site.public = "index.html" /\ site.rendered = "html"

\* the two orchestrators that make one AI call: v3 main and build_site
SpecOrchestrators == (InitRun \/ InitBuildSite) /\ [][NextV3 \/ NextBuildSite]_vars

-----------------------------------------------------------------------------
(* Order of the steps of the orchestrators *)

FetchEntries == {MainFetchOrder[i] : i \in 1..Len(MainFetchOrder)}
                  \cup {GetAllDataOrder[i] : i \in 1..Len(GetAllDataOrder)}

AIEntries == {"ai_call", "ai_return"}

\* every fetch call of the orchestrator that runs is in the log
AllFetched ==
    \/ SubSeq(log, 1, Len(MainFetchOrder)) = MainFetchOrder
    \/ SubSeq(log, 1, Len(GetAllDataOrder)) = GetAllDataOrder

\* C6: in v3 main and in build_site the steps happen in the order fetchers,
\* AI caller, writing: every fetch step has finished before the first AI
\* request is sent, and the AI call has returned, with a result or a failure,
\* before the first output file is written.
C6_FetchThenAIThenWrite ==
    /\ \A i \in 1..Len(log) : \A j \in (i + 1)..Len(log) :
          /\ log[j] \in FetchEntries => log[i] \in FetchEntries
          /\ log[i] = "write" => log[j] = "write"
    /\ http # "none" => AllFetched /\ \A i \in 1..Len(log) : log[i] # "write"
    /\ (\E i \in 1..Len(log) : log[i] \in AIEntries) => AllFetched
    /\ (\E i \in 1..Len(log) : log[i] = "write") =>
          /\ AllFetched
          /\ \E i \in 1..Len(log) : log[i] = "ai_return"

\* build_site wrote index.html after a request to the model had been answered
C6_WitnessBuildSite ==
    /\ pc = "bs:done"
    /\ site.public = "index.html"
    /\ site.insight_html = "html"
    /\ Len(log) = Len(GetAllDataOrder) + 4

-----------------------------------------------------------------------------
(* unified_fetcher.py: save_data *)

\* calls of save_data in one session
MaxSaves == 32

\* history[-30:]
HistoryKeep == 30

\* the keys of fetch_functions in main(), in insertion order
fetch_functions ==
    <<"the-shield", "the-frontier", "the-map", "the-coin", "the-strategy",
      "the-library", "the-commander">>

\* the app names of the USAGE section of the module docstring
UsageApps == {"crash-detector", "ai-race"}

\* output_paths.get(app_name, [DATA_DIR / app_name / 'latest.json'])
output_paths(app_name) ==
    IF app_name = "the-frontier"
    THEN <<"apps/the-frontier/AI_RACE_CLEAN-main/mission_data.json", "data/the-frontier/latest.json">>
    ELSE IF app_name = "the-coin"
    THEN <<"apps/the-coin/dashboard_data.json", "data/the-coin/latest.json">>
    ELSE IF app_name = "the-strategy"
    THEN <<"apps/the-strategy/market_analysis.json", "data/the-strategy/latest.json">>
    ELSE <<"data/" \o app_name \o "/latest.json">>

\* every file save_data can write for the app names of the model
Paths == UNION {Range(output_paths(a)) : a \in Range(fetch_functions) \cup UsageApps}

\* a file that was not written; the payloads are numbered from 1
NoPayload == 0

\* history.json after a write that was cut short: no JSON document
TornHistory == [kind |-> "invalid", entries |-> <<>>]

\* faulty variant of KeepLast: the oldest entries are kept
KeepFirst(h) == IF Len(h) <= HistoryKeep THEN h ELSE SubSeq(h, 1, HistoryKeep)

\* history[-30:]
KeepLast(h) == IF Len(h) <= HistoryKeep THEN h ELSE SubSeq(h, Len(h) - HistoryKeep + 1, Len(h))

\* the try block of save_data: read, append, keep the last 30, write; a file
\* that does not parse raises inside the try and history.json stays as it is
UpdateHistory(h, data) ==
    IF h.kind = "invalid" THEN h
    ELSE [kind |-> "list", entries |-> KeepLast(Append(h.entries, data))]

\* save_data(app_name, data); fail_at = k > 0: mkdir or write_text of the k-th
\* path raises OSError, which leaves save_data; fail_at = 0: no write fails
save_data(app_name, data, fail_at) ==
    LET paths == output_paths(app_name)
        done == IF fail_at = 0 THEN Range(paths) ELSE {paths[k] : k \in 1..(fail_at - 1)}
    IN /\ disk' = [f \in Paths |-> IF f \in done THEN data ELSE disk[f]]
       /\ history' = IF fail_at = 0 /\ app_name = "the-shield"
                     THEN UpdateHistory(history, data)
                     ELSE history

\* the variables save_data and main() of unified_fetcher.py do not use
IdleFetchers ==
    /\ store = [k \in StoreKeys |-> Absent]
    /\ reqs = [r \in Resources |-> 0]
    /\ AI_QUOTA_EXCEEDED = FALSE
    /\ ai_result = None
    /\ aiCalls = 0
    /\ aiIdx = 0
    /\ aiLog = <<>>
    /\ http = "none"
    /\ dashboards = <<>>
    /\ analysis = "default"
    /\ files = [f \in Folders |-> NoFile]
    /\ cache = <<>>
    /\ now = 0
    /\ site = NoSite
    /\ IdlePool

fetcherVars == <<store, reqs, aiVars, http, outVars, cache, now, site, poolVars>>

\* one call save_data('the-shield', d) with the next payload; log keeps the
\* payloads of the calls that returned
call_save_data ==
    /\ pc = "save_data"
    /\ steps < MaxSaves
    /\ steps' = steps + 1
    /\ \E fail_at \in {0, 1} :
        /\ fail_at # 0 => outages < MaxOutages
        /\ save_data("the-shield", steps + 1, fail_at)
        /\ outages' = IF fail_at = 0 THEN outages ELSE outages + 1
        /\ result' = IF fail_at = 0 THEN NoResult ELSE Raised("OSError")
        /\ log' = IF fail_at = 0 THEN Append(log, steps + 1) ELSE log
    /\ UNCHANGED <<pc, args, env, apps_to_fetch, results, fetcherVars>>

\* the process is killed inside the write_text of history.json, between two calls
interrupted_history_write ==
    /\ pc = "save_data"
    /\ history.kind = "list"
    /\ history' = TornHistory
    /\ result' = NoResult
    /\ UNCHANGED <<pc, args, env, outages, log, steps, apps_to_fetch, results, disk, fetcherVars>>

\* a session of save_data calls in a data directory without the-shield files
InitSaveData ==
    /\ pc = "save_data"
    /\ args = [all |-> FALSE, app |-> "the-shield", apps |-> <<>>, dry_run |-> FALSE]
    /\ env = [missing |-> {}, key |-> FALSE]
    /\ outages = 0
    /\ log = <<>>
    /\ result = NoResult
    /\ steps = 0
    /\ apps_to_fetch = <<>>
    /\ results = [success |-> <<>>, failed |-> <<>>]
    /\ disk = [f \in Paths |-> NoPayload]
    /\ history = NoHistory
    /\ IdleFetchers

NextSaveData == call_save_data \/ interrupted_history_write

SpecSaveData == InitSaveData /\ [][NextSaveData]_vars

ShieldLatest == disk["data/the-shield/latest.json"]

C11_TornWitness ==
    /\ history.kind = "invalid"
    /\ log # <<>> /\ ShieldLatest = log[Len(log)]
    /\ steps = Len(log) /\ steps > 2
    /\ result = NoResult

-----------------------------------------------------------------------------
(* unified_fetcher.py: main *)

\* apps of one run whose fetch function or save_data raises
MaxFailures == 2

AppNames == Range(fetch_functions) \cup UsageApps

\* the --apps values of the model, after split(',') and strip(); <<>> when
\* the option is not given
AppsLists ==
    {<<"the-map", "the-map">>, <<"the-shield", "crash-detector", "the-coin">>, <<"ai-race">>}

\* the parsed command line of unified_fetcher.py
V1Args == [all : BOOLEAN, app : {None} \cup AppNames, apps : {<<>>} \cup AppsLists,
           dry_run : BOOLEAN]

\* "Determine which apps to fetch for"
AppsToFetch(a) ==
    IF a.all THEN fetch_functions
    ELSE IF a.app # None THEN <<a.app>>
    ELSE IF a.apps # <<>> THEN a.apps
    ELSE fetch_functions

\* faulty variant of AfterAppException: the exception leaves main()
AfterAppExceptionPropagates == "main:crashed"

\* "except Exception as e": the app is recorded as failed and the loop goes on
AfterAppException == "main:loop"

\* main() up to the loop: the apps are chosen; --dry-run only lists them
main_select_apps ==
    /\ pc = "main:parse"
    /\ apps_to_fetch' = AppsToFetch(args)
    /\ pc' = IF args.dry_run THEN "main:returned" ELSE "main:loop"
    /\ UNCHANGED <<args, env, outages, log, result, steps, results, disk, history, fetcherVars>>

\* one iteration of "for app in apps_to_fetch"; the payload of the
\* occurrence at position i is i
main_process_app ==
    /\ pc = "main:loop"
    /\ steps < Len(apps_to_fetch)
    /\ steps' = steps + 1
    /\ LET app == apps_to_fetch[steps + 1]
           data == steps + 1
       IN IF app \in Range(fetch_functions)
          THEN \E o \in {"ok", "fetch_raises", "save_raises"} :
                 \/ /\ o = "ok"
                    /\ save_data(app, data, 0)
                    /\ results' = [results EXCEPT !.success = Append(@, app)]
                    /\ pc' = "main:loop"
                    /\ UNCHANGED outages
                 \/ /\ o = "fetch_raises"
                    /\ outages < MaxFailures
                    /\ outages' = outages + 1
                    /\ results' = [results EXCEPT !.failed = Append(@, app)]
                    /\ pc' = AfterAppException
                    /\ UNCHANGED <<disk, history>>
                 \/ /\ o = "save_raises"
                    /\ outages < MaxFailures
                    /\ outages' = outages + 1
                    /\ \E fail_at \in 1..Len(output_paths(app)) : save_data(app, data, fail_at)
                    /\ results' = [results EXCEPT !.failed = Append(@, app)]
                    /\ pc' = AfterAppException
          ELSE /\ results' = [results EXCEPT !.failed = Append(@, app)]
               /\ pc' = "main:loop"
               /\ UNCHANGED <<outages, disk, history>>
    /\ UNCHANGED <<args, env, log, result, apps_to_fetch, fetcherVars>>

\* the loop is over: the summary is logged
main_summary ==
    /\ pc = "main:loop"
    /\ steps = Len(apps_to_fetch)
    /\ pc' = "main:done"
    /\ UNCHANGED <<args, env, outages, log, result, steps, apps_to_fetch, results, disk,
                   history, fetcherVars>>

\* the start of main(); history.json may be left, whole or torn, by earlier runs
InitV1Main ==
    /\ pc = "main:parse"
    /\ args \in V1Args
    /\ env = [missing |-> {}, key |-> FALSE]
    /\ outages = 0
    /\ log = <<>>
    /\ result = NoResult
    /\ steps = 0
    /\ apps_to_fetch = <<>>
    /\ results = [success |-> <<>>, failed |-> <<>>]
    /\ disk = [f \in Paths |-> NoPayload]
    /\ history \in {NoHistory, TornHistory}
    /\ IdleFetchers

NextV1Main == main_select_apps \/ main_process_app \/ main_summary

SpecV1Main == InitV1Main /\ [][NextV1Main]_vars

\* occurrences of the name a in the sequence q
Count(q, a) == Cardinality({i \in 1..Len(q) : q[i] = a})

\* the occurrences the loop has gone through
Processed == SubSeq(apps_to_fetch, 1, steps)

\* C13 as the USAGE section states it: --app crash-detector (or --app
\* ai-race) runs the fetch function of that app and saves its output, and the
\* app is reported as successful when its fetch and save complete.
C13_UsageAppSucceeds ==
    (pc = "main:done" /\ ~args.all /\ args.app \in UsageApps /\ outages = 0) =>
        /\ results.success = <<args.app>>
        /\ \A f \in Range(output_paths(args.app)) : disk[f] # NoPayload

\* --app crash-detector: no fetch function runs, nothing is written and the
\* app is reported as failed
C13_NoFetchFunction ==
    /\ pc = "main:done"
    /\ ~args.all /\ args.app = "crash-detector"
    /\ results = [success |-> <<>>, failed |-> <<"crash-detector">>]
    /\ \A f \in Paths : disk[f] = NoPayload

\* C15: the apps are processed independently: an exception of a fetch
\* function or of save_data does not end the loop; every requested
\* occurrence that was processed is in exactly one of results['success'] and
\* results['failed'], all of them when the loop ends; an app is in 'success'
\* only if save_data completed for it; a name without a fetch function is in
\* 'failed' with nothing written.
C15_AppsIndependent ==
    /\ pc \in {"main:parse", "main:returned", "main:loop", "main:done"}
    /\ pc = "main:done" => steps = Len(apps_to_fetch)
    /\ \A a \in AppNames :
          /\ Count(results.success, a) + Count(results.failed, a) = Count(Processed, a)
          /\ Count(results.success, a) > 0 =>
                \A f \in Range(output_paths(a)) : disk[f] # NoPayload
          /\ a \notin Range(fetch_functions) =>
                /\ Count(results.success, a) = 0
                /\ \A f \in Range(output_paths(a)) : disk[f] = NoPayload
    /\ Len(results.success) + Len(results.failed) = steps

\* the-shield failed in its fetch, an unknown name was skipped, and the-coin,
\* processed after both, was saved and reported as successful
C15_Witness ==
    /\ pc = "main:done"
    /\ apps_to_fetch = <<"the-shield", "crash-detector", "the-coin">>
    /\ results = [success |-> <<"the-coin">>, failed |-> <<"the-shield", "crash-detector">>]
    /\ disk["data/the-coin/latest.json"] = 3
    /\ disk["data/the-shield/latest.json"] = NoPayload

-----------------------------------------------------------------------------
(* ThreadPoolExecutor, as fetch_multi and fetch_market_data use it *)

\* a future: the dict value or call argument name, the ticker the call was
\* submitted with, its state ("pending" queued, "running" in a worker thread,
\* "finished" result set, "yielded" handed out by as_completed) and its result
Future(name, ticker) ==
    [name |-> name, ticker |-> ticker, state |-> "pending", success |-> FALSE, of |-> None]

Running(fs) == {i \in DOMAIN fs : fs[i].state = "running"}

\* the work queue of the executor is first in, first out
FirstPending(fs, i) ==
    /\ fs[i].state = "pending"
    /\ \A j \in 1..(i - 1) : fs[j].state # "pending"

\* the variables a thread pool leaves alone, the store apart
poolFrame == <<args, env, reqs, outages, aiVars, http, outVars, log, v1Vars, site, mainVars>>

-----------------------------------------------------------------------------
(* unified_fetcher.py: MarketFetcher.fetch_multi *)

\* ThreadPoolExecutor(max_workers=5)
MultiMaxWorkers == 5

\* tickers of fetch_for_crash_detector, in insertion order
MultiNames ==
    <<"USD/JPY", "USD/CNH", "10Y Treasury Yield", "MOVE Index", "VIX", "CBON ETF">>

MultiTickers ==
    [n \in Range(MultiNames) |->
        IF n = "USD/JPY" THEN "JPY=X"
        ELSE IF n = "USD/CNH" THEN "CNH=X"
        ELSE IF n = "10Y Treasury Yield" THEN "^TNX"
        ELSE IF n = "MOVE Index" THEN "^MOVE"
        ELSE IF n = "VIX" THEN "^VIX"
        ELSE "CBON"]

\* faulty variant of FutureName: the futures are taken to complete in the
\* order they were submitted
FutureNameInOrder(fs, i) == fs[Cardinality(DOMAIN multi) + 1].name

\* name = futures[future]
FutureName(fs, i) == fs[i].name

\* the dict comprehension: executor.submit(self.fetch_ticker, ticker) for the
\* next item of tickers
fetch_multi_submit ==
    /\ pc = "multi:submit"
    /\ LET name == MultiNames[Len(futures) + 1]
       IN futures' = Append(futures, Future(name, MultiTickers[name]))
    /\ pc' = IF Len(futures) + 1 = Len(MultiNames) THEN "multi:as_completed" ELSE pc
    /\ thread' = "main"
    /\ UNCHANGED <<store, multi, poolFrame>>

\* a worker thread takes the oldest queued call
fetch_multi_worker_start ==
    /\ pc \in {"multi:submit", "multi:as_completed"}
    /\ Cardinality(Running(futures)) < MultiMaxWorkers
    /\ \E i \in DOMAIN futures :
        /\ FirstPending(futures, i)
        /\ futures' = [futures EXCEPT ![i].state = "running"]
    /\ thread' = "worker"
    /\ UNCHANGED <<pc, store, multi, poolFrame>>

\* fetch_ticker(ticker) returns in its worker thread: a FetchResult, success
\* or failure; "of" names the call that produced it
fetch_multi_worker_finish ==
    /\ pc \in {"multi:submit", "multi:as_completed"}
    /\ \E i \in Running(futures), ok \in BOOLEAN :
        futures' = [futures EXCEPT ![i].state = "finished", ![i].success = ok,
                                    ![i].of = futures[i].ticker]
    /\ thread' = "worker"
    /\ UNCHANGED <<pc, store, multi, poolFrame>>

\* one iteration of "for future in as_completed(futures)": any finished
\* future that was not handed out yet
fetch_multi_collect ==
    /\ pc = "multi:as_completed"
    /\ \E i \in DOMAIN futures :
        /\ futures[i].state = "finished"
        /\ futures' = [futures EXCEPT ![i].state = "yielded"]
        /\ multi' = (FutureName(futures, i) :> [success |-> futures[i].success, of |-> futures[i].of])
                      @@ multi
    /\ thread' = "main"
    /\ UNCHANGED <<pc, store, poolFrame>>

\* every future was handed out: the pool shuts down and results is returned
fetch_multi_return ==
    /\ pc = "multi:as_completed"
    /\ \A i \in DOMAIN futures : futures[i].state = "yielded"
    /\ pc' = "multi:returned"
    /\ thread' = "main"
    /\ UNCHANGED <<store, futures, multi, poolFrame>>

\* the call market.fetch_multi(tickers) of fetch_for_crash_detector
InitFetchMulti ==
    /\ IdleRun("multi:submit")
    /\ env = [missing |-> {}, key |-> FALSE]
    /\ cache = <<>>
    /\ now = 0
    /\ result = NoResult
    /\ steps = 0
    /\ site = NoSite
    /\ IdleMain /\ IdlePool

NextFetchMulti ==
    \/ fetch_multi_submit
    \/ fetch_multi_worker_start
    \/ fetch_multi_worker_finish
    \/ fetch_multi_collect
    \/ fetch_multi_return

SpecFetchMulti == InitFetchMulti /\ [][NextFetchMulti]_vars

\* C12: under every interleaving and completion order of the worker
\* threads, fetch_multi returns a dict whose keys are exactly the names of
\* tickers, each name mapped to the FetchResult of the call for its own ticker.
C12_EveryNameItsOwnResult ==
    /\ \A n \in DOMAIN multi : n \in Range(MultiNames) /\ multi[n].of = MultiTickers[n]
    /\ pc = "multi:returned" => DOMAIN multi = Range(MultiNames)

\* the call returned all six names, with a failure for the first ticker and a
\* success for the last
C12_Witness ==
    /\ pc = "multi:returned"
    /\ DOMAIN multi = Range(MultiNames)
    /\ ~multi["USD/JPY"].success
    /\ multi["CBON ETF"].success

-----------------------------------------------------------------------------
(* unified_fetcher_v2.py and _v3.py: the thread pool of fetch_market_data *)

\* tickers of fetch_market_data that the pool of the model is given
MaxPoolTickers == 5

\* ThreadPoolExecutor(max_workers=10)
MarketMaxWorkers == 10

\* the items of tickers, in insertion order
TickerOrder ==
    <<"JPY", "CNH", "TNX", "MOVE", "VIX", "CBON", "BTC", "ETH", "DXY", "GOLD", "OIL",
      "SP500", "TASI">>

PoolNames == SubSeq(TickerOrder, 1, MaxPoolTickers)

\* the price fetch_ticker returns with the name: None, or the last price of
\* the ticker, which the model names by the ticker
PriceOf(ticker, outcome) == IF TickerPrice(outcome) = None THEN None ELSE ticker

\* faulty variant of ConsumePrice: the price is stored without the None test
ConsumePriceUnguarded(s, name, price) == StoreSet(s, [k \in {"market." \o name} |-> price])

\* "if price is not None: store.set(f'market.{name}', price)"
ConsumePrice(s, name, price) ==
    IF price # None THEN StoreSet(s, [k \in {"market." \o name} |-> price]) ELSE s

\* "if not YFINANCE_AVAILABLE: return"
market_unavailable ==
    /\ pc = "market:submit"
    /\ ~YFINANCE_AVAILABLE
    /\ pc' = "market:returned"
    /\ thread' = "main"
    /\ UNCHANGED <<store, futures, multi, poolFrame>>

\* the list comprehension: executor.submit(fetch_ticker, name, ticker)
market_submit ==
    /\ pc = "market:submit"
    /\ YFINANCE_AVAILABLE
    /\ LET name == PoolNames[Len(futures) + 1]
       IN futures' = Append(futures, Future(name, tickers[name]))
    /\ pc' = IF Len(futures) + 1 = Len(PoolNames) THEN "market:as_completed" ELSE pc
    /\ thread' = "main"
    /\ UNCHANGED <<store, multi, poolFrame>>

\* a worker thread takes the oldest queued call
market_worker_start ==
    /\ pc \in {"market:submit", "market:as_completed"}
    /\ Cardinality(Running(futures)) < MarketMaxWorkers
    /\ \E i \in DOMAIN futures :
        /\ FirstPending(futures, i)
        /\ futures' = [futures EXCEPT ![i].state = "running"]
    /\ thread' = "worker"
    /\ UNCHANGED <<pc, store, multi, poolFrame>>

\* the nested fetch_ticker(name, ticker) returns (name, price) in its worker
\* thread; it reads and writes nothing but its own locals
market_worker_finish ==
    /\ pc \in {"market:submit", "market:as_completed"}
    /\ \E i \in Running(futures), o \in TickerOutcomes :
        futures' = [futures EXCEPT ![i].state = "finished",
                                    ![i].success = TickerPrice(o) # None,
                                    ![i].of = PriceOf(futures[i].ticker, o)]
    /\ thread' = "worker"
    /\ UNCHANGED <<pc, store, multi, poolFrame>>

\* one iteration of "for future in as_completed(futures)" in the main thread
market_consume ==
    /\ pc = "market:as_completed"
    /\ \E i \in DOMAIN futures :
        /\ futures[i].state = "finished"
        /\ futures' = [futures EXCEPT ![i].state = "yielded"]
        /\ store' = ConsumePrice(store, futures[i].name, futures[i].of)
    /\ thread' = "main"
    /\ UNCHANGED <<pc, multi, poolFrame>>

\* every future was handed out: the pool shuts down, fetch_market_data returns
market_return ==
    /\ pc = "market:as_completed"
    /\ \A i \in DOMAIN futures : futures[i].state = "yielded"
    /\ pc' = "market:returned"
    /\ thread' = "main"
    /\ UNCHANGED <<store, futures, multi, poolFrame>>

\* the call fetch_market_data() of main(), on the empty store
InitMarketPool ==
    /\ IdleRun("market:submit")
    /\ env \in [missing : {{}, {"yfinance"}}, key : {FALSE}]
    /\ IdleV1

NextMarketPool ==
    \/ market_unavailable
    \/ market_submit
    \/ market_worker_start
    \/ market_worker_finish
    \/ market_consume
    \/ market_return

SpecMarketPool == InitMarketPool /\ [][NextMarketPool]_vars

MarketKeys == {"market." \o n : n \in TickerNames}

\* C19: under every interleaving of the worker threads the store is written
\* only by the main thread, no market.* key ever holds None, and when
\* fetch_market_data returns the store holds market.<name> exactly for the
\* tickers whose fetch gave a price that is not None, with that price.
C19_MainThreadStores ==
    /\ []( /\ \A k \in MarketKeys : store[k] # None
           /\ pc = "market:returned" =>
                \A i \in DOMAIN futures :
                    LET k == "market." \o futures[i].name
                    IN  IF futures[i].of = None THEN store[k] = Absent
                        ELSE store[k] = futures[i].of /\ store[k] = tickers[futures[i].name]
           /\ pc = "market:returned" =>
                \A n \in TickerNames :
                    store["market." \o n] # Absent => \E i \in DOMAIN futures : futures[i].name = n )
    /\ [][store' # store => thread' = "main" /\ pc = "market:as_completed"]_vars

\* fetch_market_data returned with the price of JPY stored and no key for CNH,
\* whose fetch gave None
C19_Witness ==
    /\ pc = "market:returned"
    /\ Len(futures) = Len(PoolNames)
    /\ store["market.JPY"] = tickers["JPY"]
    /\ store["market.CNH"] = Absent
    /\ futures[2].of = None

-----------------------------------------------------------------------------
(* unified_fetcher.py: AIFetcher.call_ai for any list of models *)

\* the models arguments of the model: None (the default ['llama-70b']), the
\* list of fetch_for_crash_detector, the empty list, a key given twice, and
\* a key that is not in MODELS
ModelLists ==
    {<<"llama-70b">>, <<"llama-70b", "olmo-32b">>, <<>>, <<"olmo-32b", "olmo-32b">>,
     <<"vendor/model", "llama-70b", "mistral-24b">>}

\* self.MODELS.get(model_key, model_key)
MODELS(model_key) ==
    IF model_key = "llama-70b" THEN "meta-llama/llama-3.3-70b-instruct:free"
    ELSE IF model_key = "olmo-32b" THEN "allenai/olmo-3-32b-think:free"
    ELSE IF model_key = "mistral-24b" THEN "mistralai/mistral-small-3.1-24b-instruct:free"
    ELSE model_key

\* the exception one iteration of the loop ends with when it does not return
AttemptError(resp) ==
    IF resp.status = 0 THEN "ConnectionError"
    ELSE IF resp.status # 200 THEN "HTTPError"
    ELSE IF resp.body = "not_json" THEN "JSONDecodeError"
    ELSE "No choices in response"

\* str(last_error)
PyStr(e) == IF e = None THEN "'None'" ELSE e

\* faulty variant of LastError: the first error is kept
FirstError(last_error, e) == IF last_error = None THEN e ELSE last_error

\* "last_error = e"
LastError(last_error, e) == e

\* the data of the FetchResult of call_ai
AIData(content, model) == [content |-> content, model |-> model]

\* the text of the failure results
Unavailable == "AI analysis temporarily unavailable."

\* call_ai up to the loop: without a key the failure is returned at once
call_ai_enter ==
    /\ pc = "ai:call_ai"
    /\ aiCalls' = aiCalls + 1
    /\ aiIdx' = 1
    /\ aiLog' = <<>>
    /\ http' = "none"
    /\ IF ~env.key
       THEN /\ result' = FetchResult(FALSE, AIData(Unavailable, Absent), "openrouter", now,
                                     "API key not configured")
            /\ pc' = "ai:returned"
       ELSE /\ result' = [NoResult EXCEPT !.data = AIData(Absent, Absent)]
            /\ pc' = "ai:loop"
    /\ UNCHANGED <<args, env, store, reqs, outages, AI_QUOTA_EXCEEDED, ai_result, outVars, log,
                   cache, now, steps, site, mainVars, poolVars>>

\* one iteration of "for model_key in models": one POST, or NameError when
\* the requests library is missing
call_ai_request ==
    /\ pc = "ai:loop"
    /\ aiIdx <= Len(args.models)
    /\ \E resp \in IF REQUESTS_AVAILABLE THEN Responses ELSE {r \in Responses : r.status = 0} :
        LET model_key == args.models[aiIdx]
            r == AIFetcherAttempt(resp)
            e == IF REQUESTS_AVAILABLE THEN AttemptError(resp) ELSE "NameError"
        IN  /\ http' = IF REQUESTS_AVAILABLE THEN MODELS(model_key) ELSE "none"
            /\ aiLog' = Append(aiLog, [model |-> model_key, sent |-> REQUESTS_AVAILABLE,
                                       answered |-> r.kind = "return",
                                       error |-> IF r.kind = "return" THEN None ELSE e])
            /\ IF r.kind = "return"
               THEN /\ result' = FetchResult(TRUE,
                                     AIData(IF r.value.none THEN None ELSE "str", model_key),
                                     "openrouter", now, None)
                    /\ pc' = "ai:returned"
                    /\ UNCHANGED aiIdx
               ELSE /\ result' = [result EXCEPT !.error = LastError(@, e)]
                    /\ aiIdx' = aiIdx + 1
                    /\ UNCHANGED pc
    /\ UNCHANGED <<args, env, store, reqs, outages, AI_QUOTA_EXCEEDED, ai_result, aiCalls,
                   outVars, log, cache, now, steps, site, mainVars, poolVars>>

\* the loop ended without a return: "All models failed"
call_ai_all_failed ==
    /\ pc = "ai:loop"
    /\ aiIdx > Len(args.models)
    /\ result' = FetchResult(FALSE, AIData(Unavailable, Absent), "openrouter", now,
                             PyStr(result.error))
    /\ pc' = "ai:returned"
    /\ http' = "none"
    /\ UNCHANGED <<args, env, store, reqs, outages, aiVars, outVars, log,
                   cache, now, steps, site, mainVars, poolVars>>

\* one call of AIFetcher.call_ai
InitCallAI ==
    /\ pc = "ai:call_ai"
    /\ args \in [models : ModelLists]
    /\ env \in Envs
    /\ outages = 0
    /\ log = <<>>
    /\ result = NoResult
    /\ steps = 0
    /\ IdleMain
    /\ IdleFetchers

NextCallAI == call_ai_enter \/ call_ai_request \/ call_ai_all_failed

SpecCallAI == InitCallAI /\ [][NextCallAI]_vars

\* C14: AIFetcher.call_ai is an ordered fallback.  Without a key it sends no
\* request and returns success=False.  With a key it asks the models in list
\* order, one request at most per list element, returns success=True with
\* the key of the first model that answered 200 with a choice and asks no
\* model after it, and returns success=False, with the last error, only after
\* every listed model failed.  The data returned always has a content field.
C14_OrderedFallback ==
    /\ ~env.key => aiLog = <<>> /\ http = "none"
    /\ Len(aiLog) <= Len(args.models)
    /\ \A i \in 1..Len(aiLog) : aiLog[i].model = args.models[i]
    /\ \A i \in 1..(Len(aiLog) - 1) : ~aiLog[i].answered
    /\ (aiLog # <<>> /\ aiLog[Len(aiLog)].answered) => pc = "ai:returned" /\ result.success
    /\ http # "none" => aiLog # <<>> /\ http = MODELS(aiLog[Len(aiLog)].model)
    /\ pc = "ai:returned" =>
          /\ result.kind = "FetchResult"
          /\ result.data.content # Absent
          /\ result.success =>
                /\ env.key
                /\ aiLog # <<>> /\ aiLog[Len(aiLog)].answered
                /\ result.data.model = args.models[Len(aiLog)]
                /\ result.error = None
          /\ ~result.success =>
                /\ \A i \in 1..Len(aiLog) : ~aiLog[i].answered
                /\ env.key =>
                      /\ Len(aiLog) = Len(args.models)
                      /\ result.error = IF aiLog = <<>> THEN PyStr(None)
                                        ELSE aiLog[Len(aiLog)].error
                /\ ~env.key => result.error = "API key not configured"

\* the first model failed with an HTTP error, the second answered: the call
\* returned the key of the second and the third was not asked
C14_Witness ==
    /\ pc = "ai:returned"
    /\ args.models = <<"vendor/model", "llama-70b", "mistral-24b">>
    /\ Len(aiLog) = 2
    /\ aiLog[1].error = "HTTPError"
    /\ result.success
    /\ result.data = AIData("str", "llama-70b")

-----------------------------------------------------------------------------
(* The Commander's morning brief: unified_fetcher.py
   fetch_for_dashboard_orchestrator, unified_fetcher_v2.py
   analyze_the_commander, unified_fetcher_v3.py build_commander_data *)

Versions == {"v1", "v2", "v3"}

\* keys of the morning_brief dict literal
BriefFields ==
    {"weather_of_the_day", "top_signal", "why_it_matters", "cross_dashboard_convergence",
     "action_stance", "optional_deep_insight", "clarity_level", "summary_sentence"}

\* levels of the composite risk, and one level an AI answer put in the file
\* (v3 build_shield_data copies the_shield.risk_level)
RiskLevels == {"CRITICAL", "ELEVATED", "LOW", "UNKNOWN", "MODERATE"}
Momenta == {"Bullish", "Bearish", "Neutral"}
Stances == {"Defensive", "Neutral", "Accumulative"}

\* the file a loader finds: missing, not JSON, or a JSON object with the keys
\* the Commander reads (Absent: the object has no such key)
ShieldFiles ==
    {f \in [kind : {"missing", "torn", "json"}, risk_assessment : {Absent, "dict"},
            level : {Absent} \cup RiskLevels] :
        /\ f.kind # "json" => f.risk_assessment = Absent
        /\ f.risk_assessment = Absent => f.level = Absent}
CoinFiles ==
    {f \in [kind : {"missing", "torn", "json"}, momentum : {Absent} \cup Momenta] :
        f.kind # "json" => f.momentum = Absent}
StrategyFiles ==
    {f \in [kind : {"missing", "torn", "json"}, stance : {Absent} \cup Stances] :
        f.kind # "json" => f.stance = Absent}

\* load_json / the try blocks around json.loads: {} unless the file exists
\* and parses
LoadShield(f) == [risk_assessment |-> f.risk_assessment, level |-> f.level]
LoadCoin(f) == [momentum |-> f.momentum]
LoadStrategy(f) == [stance |-> f.stance]

\* shield_data.get('risk_assessment', {}).get('level', 'UNKNOWN')
RiskLevelOf(shield_data) ==
    LET ra == IF shield_data.risk_assessment = Absent
              THEN [level |-> Absent]
              ELSE [level |-> shield_data.level]
    IN  DictGet(ra, "level", "UNKNOWN")

\* faulty variant of Weather: LOW alone gives Sunny
WeatherIgnoringMomentum(risk_level, crypto_momentum) ==
    IF risk_level = "CRITICAL" THEN "Stormy"
    ELSE IF risk_level = "LOW" THEN "Sunny"
    ELSE IF risk_level = "ELEVATED" THEN "Foggy"
    ELSE "Cloudy"

\* the if / elif chain over weather = "Cloudy"
Weather(risk_level, crypto_momentum) ==
    IF risk_level = "CRITICAL" THEN "Stormy"
    ELSE IF risk_level = "LOW" /\ crypto_momentum = "Bullish" THEN "Sunny"
    ELSE IF risk_level = "ELEVATED" THEN "Foggy"
    ELSE "Cloudy"

\* the weather string: the word in v1 and v2, the word, a space and an emoji
\* in v3 ("Stormy" + U+26C8, "Sunny" + U+2600, "Foggy" + U+1F32B,
\* "Cloudy" + U+2601, each with U+FE0F)
Emoji(word) ==
    CASE word = "Stormy" -> "U+26C8 U+FE0F"
      [] word = "Sunny" -> "U+2600 U+FE0F"
      [] word = "Foggy" -> "U+1F32B U+FE0F"
      [] word = "Cloudy" -> "U+2601 U+FE0F"

WeatherString(version, word) ==
    IF version = "v3" THEN <<word, " ", Emoji(word)>> ELSE <<word>>

\* top_signal: v1 chooses among three texts, v2 and v3 always name the level
TopSignal(version, risk_level, crypto_momentum) ==
    IF version # "v1" \/ risk_level # "LOW" THEN <<"Risk Level: ", risk_level>>
    ELSE IF crypto_momentum # "Neutral" THEN <<"Crypto: ", crypto_momentum>>
    ELSE <<"Market Data Available">>

\* the fallback morning_brief dict
FallbackBrief(version, shield_data, coin_data, strategy_data) ==
    LET risk_level == RiskLevelOf(shield_data)
        crypto_momentum == DictGet(coin_data, "momentum", "Neutral")
        stance == DictGet(strategy_data, "stance", "Neutral")
    IN  [f \in BriefFields |->
            CASE f = "weather_of_the_day" ->
                    WeatherString(version, Weather(risk_level, crypto_momentum))
              [] f = "top_signal" -> TopSignal(version, risk_level, crypto_momentum)
              [] f = "why_it_matters" -> <<"AI analysis is currently unavailable">>
              [] f = "cross_dashboard_convergence" ->
                    <<"Risk is ", risk_level, ", Crypto is ", crypto_momentum,
                      ", and Strategy suggests ", stance, ".">>
              [] f = "action_stance" -> stance
              [] f = "optional_deep_insight" -> <<"System is operating in data-only mode">>
              [] f = "clarity_level" -> "Medium"
              [] f = "summary_sentence" -> <<"Data feeds active">>]

\* morning_brief = {}
EmptyBrief == [f \in {} |-> Absent]

\* a brief written by the AI model
AIBrief == [f \in BriefFields |-> IF f \in {"action_stance", "clarity_level"}
                                  THEN "ai" ELSE <<"ai">>]

\* what the AI step has to offer.  v1, v2: "none" (no key, every model
\* failed, no braces, json.loads raised), "empty" (the text parsed to {}),
\* "brief".  v3, the ai_result argument: "none" (None), "no section" (a dict
\* without 'the_commander'), "empty" ('the_commander': {}), "brief".
AIOffers(version) ==
    IF version = "v3" THEN {"none", "no section", "empty", "brief"}
    ELSE {"none", "empty", "brief"}

\* morning_brief after the AI step
AIStep(version, ai) ==
    CASE ai = "brief" -> AIBrief
      [] OTHER -> EmptyBrief

\* v1, v2: "if not morning_brief".  v3: the else branch of
\* "if ai_result and 'the_commander' in ai_result"
TakesFallback(version, ai, morning_brief) ==
    IF version = "v3" THEN ai \in {"none", "no section"}
    ELSE DOMAIN morning_brief = {}

NoData == [shield_data |-> LoadShield([kind |-> "missing", risk_assessment |-> Absent,
                                       level |-> Absent]),
           coin_data |-> [momentum |-> Absent],
           strategy_data |-> [stance |-> Absent]]

commanderFrame ==
    <<args, env, store, reqs, outages, aiVars, http, files, sideVars>>

\* the input files are read: shield, coin and strategy
commander_load ==
    /\ pc = "cmd:load"
    /\ dashboards' = [shield_data |-> LoadShield(args.shield),
                      coin_data |-> LoadCoin(args.coin),
                      strategy_data |-> LoadStrategy(args.strategy)]
    /\ log' = Append(log, "load")
    /\ pc' = "cmd:ai"
    /\ UNCHANGED <<analysis, commanderFrame>>

\* the AI step: the parsed answer, if any, becomes morning_brief
commander_ai ==
    /\ pc = "cmd:ai"
    /\ analysis' = AIStep(args.version, args.ai)
    /\ log' = Append(log, "ai")
    /\ pc' = "cmd:brief"
    /\ UNCHANGED <<dashboards, commanderFrame>>

\* the fallback branch builds the brief from the loaded data
commander_fallback ==
    /\ pc = "cmd:brief"
    /\ TakesFallback(args.version, args.ai, analysis)
    /\ analysis' = FallbackBrief(args.version, dashboards.shield_data,
                                 dashboards.coin_data, dashboards.strategy_data)
    /\ log' = Append(log, "fallback")
    /\ pc' = "cmd:returned"
    /\ UNCHANGED <<dashboards, commanderFrame>>

\* the fallback branch is not taken: morning_brief is returned as it is
commander_return ==
    /\ pc = "cmd:brief"
    /\ ~TakesFallback(args.version, args.ai, analysis)
    /\ log' = Append(log, "return")
    /\ pc' = "cmd:returned"
    /\ UNCHANGED <<dashboards, analysis, commanderFrame>>

\* one run of the Commander of one version over the files it finds
InitCommander ==
    /\ pc = "cmd:load"
    /\ args \in {a \in [version : Versions, shield : ShieldFiles, coin : CoinFiles,
                        strategy : StrategyFiles,
                        ai : {"none", "no section", "empty", "brief"}] :
                    a.ai \in AIOffers(a.version)}
    /\ env \in {e \in Envs : e.missing = {}}
    /\ ~env.key => args.ai = "none"
    /\ store = [k \in StoreKeys |-> Absent]
    /\ reqs = [r \in Resources |-> 0]
    /\ outages = 0
    /\ AI_QUOTA_EXCEEDED = FALSE
    /\ ai_result = None
    /\ aiCalls = 0
    /\ aiIdx = 0
    /\ aiLog = <<>>
    /\ http = "none"
    /\ dashboards = NoData
    /\ analysis = EmptyBrief
    /\ files = [f \in Folders |-> NoFile]
    /\ log = <<>>
    /\ IdleV1

NextCommander == commander_load \/ commander_ai \/ commander_fallback \/ commander_return

SpecCommander == InitCommander /\ [][NextCommander]_vars

\* the inputs as the files give them
InputLevel ==
    IF args.shield.kind = "json" /\ args.shield.level # Absent
    THEN args.shield.level ELSE "UNKNOWN"
InputMomentum ==
    IF args.coin.kind = "json" /\ args.coin.momentum # Absent
    THEN args.coin.momentum ELSE "Neutral"
InputStance ==
    IF args.strategy.kind = "json" /\ args.strategy.stance # Absent
    THEN args.strategy.stance ELSE "Neutral"

\* the brief returned is the fallback brief the claim describes: eight
\* fields, the weather word by level and momentum, the stance
IsFallbackBrief ==
    /\ DOMAIN analysis = BriefFields
    /\ LET word == analysis["weather_of_the_day"][1]
       IN  /\ word \in {"Stormy", "Sunny", "Foggy", "Cloudy"}
           /\ word = "Stormy" <=> InputLevel = "CRITICAL"
           /\ word = "Sunny" <=> (InputLevel = "LOW" /\ InputMomentum = "Bullish")
           /\ word = "Foggy" <=> InputLevel = "ELEVATED"
           /\ (args.shield.kind # "json") => word = "Cloudy"
    /\ analysis["action_stance"] = InputStance

\* C17 as stated: whenever the AI step offered no brief (nothing, or an empty
\* one), the Commander of each version returns the fallback brief with all
\* eight fields, the weather Stormy iff the level is CRITICAL, Sunny iff LOW
\* with Bullish momentum, Foggy iff ELEVATED and Cloudy otherwise, and
\* action_stance the strategy stance or 'Neutral'.
C17_FallbackWhenNoBrief ==
    (pc = "cmd:returned" /\ args.ai # "brief") => IsFallbackBrief

\* C17, amended: the fallback brief is returned by v1 and v2 whenever
\* morning_brief is empty after the AI step, and by v3 whenever ai_result is
\* None or has no 'the_commander' key; v3 returns an empty 'the_commander'
\* as it is, without any of the eight fields.  An AI brief is returned
\* unchanged by all three.
C17_FallbackBrief ==
    pc = "cmd:returned" =>
        /\ (args.version \in {"v1", "v2"} /\ args.ai # "brief") => IsFallbackBrief
        /\ (args.version = "v3" /\ args.ai \in {"none", "no section"}) => IsFallbackBrief
        /\ (args.version = "v3" /\ args.ai = "empty") => analysis = EmptyBrief
        /\ args.ai = "brief" => analysis = AIBrief
        /\ IsFallbackBrief =>
              analysis["weather_of_the_day"] =
                  WeatherString(args.version, analysis["weather_of_the_day"][1])

\* v3 found no shield file and a Bullish coin file, the AI gave nothing: the
\* fallback brief is Cloudy, with the stance of the strategy file
C17_Witness ==
    /\ pc = "cmd:returned"
    /\ args.version = "v3"
    /\ args.ai = "no section"
    /\ args.shield.kind = "missing"
    /\ args.coin.momentum = "Bullish"
    /\ args.strategy.stance = "Defensive"
    /\ analysis["weather_of_the_day"] = <<"Cloudy", " ", "U+2601 U+FE0F">>
    /\ analysis["action_stance"] = "Defensive"

\* v1 took the fallback on a LOW level with Bullish momentum: Sunny
C17_SunnyWitness ==
    /\ pc = "cmd:returned"
    /\ args.version = "v1"
    /\ args.ai = "empty"
    /\ args.shield.level = "LOW"
    /\ args.coin.momentum = "Bullish"
    /\ analysis["weather_of_the_day"] = <<"Sunny">>
    /\ analysis["top_signal"] = <<"Crypto: ", "Bullish">>

-----------------------------------------------------------------------------
(* unified_fetcher.py: determine_signal.  Values are in hundredths: 155.0 is
   15500, 7.25 is 725, 2.3 is 230 *)

JPY_STRESS_THRESHOLD == 15000
JPY_CRITICAL_THRESHOLD == 15500
CNH_STRESS_THRESHOLD == 725
CNH_CRITICAL_THRESHOLD == 740
MOVE_PROXY_HIGH == 9000
MOVE_PROXY_CRITICAL == 12000
AUCTION_BTC_STRESS == 230

\* metric names and the tokens each contains: the names fetch_for_crash_detector
\* passes, and names with a second token or with none
MetricNames ==
    {[name |-> "USD/JPY", has |-> {"JPY"}],
     [name |-> "USD/CNH", has |-> {"CNH"}],
     [name |-> "10Y Treasury Yield", has |-> {"Treasury Yield"}],
     [name |-> "^TNX", has |-> {"TNX"}],
     [name |-> "MOVE Index", has |-> {"MOVE"}],
     [name |-> "VIX", has |-> {"VIX"}],
     [name |-> "Bid-to-Cover", has |-> {"Bid-to-Cover"}],
     [name |-> "CBON ETF", has |-> {}],
     [name |-> "CNH/JPY", has |-> {"JPY", "CNH"}],
     [name |-> "VIX Bid-to-Cover", has |-> {"VIX", "Bid-to-Cover"}]}

\* "token in metric_name"
In(token, metric_name) == token \in metric_name.has

\* a float, or None
NoValue == [none |-> TRUE, x |-> 0]
PyFloat(x) == [none |-> FALSE, x |-> x]

\* the values tried: every threshold of the function, its two neighbours
\* in hundredths, and values far from all of them; all are numbers (nan,
\* which compares False with every threshold, is not among them)
Thresholds ==
    {14500, JPY_STRESS_THRESHOLD, JPY_CRITICAL_THRESHOLD,
     715, CNH_STRESS_THRESHOLD, CNH_CRITICAL_THRESHOLD,
     420, 450, 500,
     8000, MOVE_PROXY_HIGH, MOVE_PROXY_CRITICAL,
     200, AUCTION_BTC_STRESS, 240}
SignalValues ==
    UNION {{t - 1, t, t + 1} : t \in Thresholds} \cup {0, 100, 1000, 20000}

\* faulty variant of JPYSignal: the stress threshold is exclusive
JPYSignalExclusive(x) ==
    IF x >= JPY_CRITICAL_THRESHOLD THEN "CRITICAL SHOCK"
    ELSE IF x > JPY_STRESS_THRESHOLD THEN "HIGH STRESS"
    ELSE IF x > 14500 THEN "RISING STRESS"
    ELSE "NORMAL"

\* the JPY branch, falling through to the final return "NORMAL"
JPYSignal(x) ==
    IF x >= JPY_CRITICAL_THRESHOLD THEN "CRITICAL SHOCK"
    ELSE IF x >= JPY_STRESS_THRESHOLD THEN "HIGH STRESS"
    ELSE IF x > 14500 THEN "RISING STRESS"
    ELSE "NORMAL"

determine_signal(metric_name, value) ==
    IF value.none THEN "DATA ERROR"
    ELSE LET x == value.x IN
         IF In("JPY", metric_name) THEN JPYSignal(x)
         ELSE IF In("CNH", metric_name) THEN
            IF x >= CNH_CRITICAL_THRESHOLD THEN "CRITICAL SHOCK"
            ELSE IF x >= CNH_STRESS_THRESHOLD THEN "HIGH STRESS"
            ELSE IF x > 715 THEN "RISING STRESS"
            ELSE "NORMAL"
         ELSE IF In("Treasury Yield", metric_name) \/ In("TNX", metric_name) THEN
            IF x >= 500 THEN "CRITICAL SHOCK"
            ELSE IF x >= 450 THEN "HIGH STRESS"
            ELSE IF x >= 420 THEN "RISING STRESS"
            ELSE "NORMAL"
         ELSE IF In("MOVE", metric_name) \/ In("VIX", metric_name) THEN
            IF x >= MOVE_PROXY_CRITICAL THEN "CRITICAL SHOCK"
            ELSE IF x >= MOVE_PROXY_HIGH THEN "HIGH STRESS"
            ELSE IF x > 8000 THEN "RISING STRESS"
            ELSE "NORMAL"
         ELSE IF In("Bid-to-Cover", metric_name) THEN
            IF x < 200 THEN "CRITICAL SHOCK"
            ELSE IF x < AUCTION_BTC_STRESS THEN "HIGH STRESS"
            ELSE IF x < 240 THEN "RISING STRESS"
            ELSE "NORMAL"
         ELSE "NORMAL"

\* one call determine_signal(metric_name, value); the signal is kept in
\* analysis and the call in log
call_determine_signal ==
    /\ pc = "ds:call"
    /\ analysis' = determine_signal(args.metric_name, args.value)
    /\ log' = Append(log, args.metric_name.name)
    /\ pc' = "ds:returned"
    /\ UNCHANGED <<args, env, store, reqs, outages, aiVars, http, dashboards, files, sideVars>>

InitDetermineSignal ==
    /\ pc = "ds:call"
    /\ args \in [metric_name : MetricNames,
                 value : {NoValue} \cup {PyFloat(x) : x \in SignalValues}]
    /\ env = [missing |-> {}, key |-> FALSE]
    /\ store = [k \in StoreKeys |-> Absent]
    /\ reqs = [r \in Resources |-> 0]
    /\ outages = 0
    /\ AI_QUOTA_EXCEEDED = FALSE
    /\ ai_result = None
    /\ aiCalls = 0
    /\ aiIdx = 0
    /\ aiLog = <<>>
    /\ http = "none"
    /\ dashboards = <<>>
    /\ analysis = "default"
    /\ files = [f \in Folders |-> NoFile]
    /\ log = <<>>
    /\ IdleV1

NextDetermineSignal == call_determine_signal

SpecDetermineSignal == InitDetermineSignal /\ [][NextDetermineSignal]_vars

\* NORMAL < RISING STRESS < HIGH STRESS < CRITICAL SHOCK
Severity(signal) ==
    CASE signal = "NORMAL" -> 0
      [] signal = "RISING STRESS" -> 1
      [] signal = "HIGH STRESS" -> 2
      [] signal = "CRITICAL SHOCK" -> 3

\* the family of a name: the first branch of determine_signal it matches
Family(metric_name) ==
    IF "JPY" \in metric_name.has THEN "JPY"
    ELSE IF "CNH" \in metric_name.has THEN "CNH"
    ELSE IF metric_name.has \cap {"Treasury Yield", "TNX"} # {} THEN "TNX"
    ELSE IF metric_name.has \cap {"MOVE", "VIX"} # {} THEN "MOVE"
    ELSE IF "Bid-to-Cover" \in metric_name.has THEN "Bid-to-Cover"
    ELSE "none"

C18_BidToCoverWitness ==
    /\ pc = "ds:returned"
    /\ args.metric_name.name = "Bid-to-Cover"
    /\ args.value = PyFloat(229)
    /\ analysis = "HIGH STRESS"
    /\ determine_signal(args.metric_name, PyFloat(230)) = "RISING STRESS"

====
